---- MODULE Spec2Model ----
(***************************************************************************)
(* Streaming core of the chart backend: the Binance feed's throttled       *)
(* broadcast (BinanceStreamService), the socket gateway with its rooms     *)
(* (PriceGateway) and the broker subscriber (RedisSubscriberService).      *)
(*                                                                         *)
(* Strings that the code upper-cases are tuples of one-character strings,  *)
(* so that toUpperCase is computed character by character.  A JavaScript   *)
(* Map is a function whose DOMAIN is the set of keys present.  An optional *)
(* value is a tuple of length 0 or 1.                                      *)
(***************************************************************************)
EXTENDS Integers, Sequences, FiniteSets, TLC

(* ------------------------------ bounds -------------------------------- *)

\* Clock step: Date.now() is observed at multiples of TickMs after StartTime.
TickMs == 100
\* Number of clock steps explored by the feed specification.
MaxTicks == 5
\* Number of upstream frames explored by the feed specification.
MaxEvents == 3
\* Number of clock steps and of upstream frames explored by the fair feed
\* specification.
FairMaxTicks == 3
FairMaxEvents == 3
\* Number of clock steps explored by the gateway specification.
GwMaxTicks == 2
\* Number of inputs (subscribe/unsubscribe calls and upstream frames together)
\* explored by the gateway specification.
GwMaxOps == 4
\* The stream-persistence specification starts its clock one step before the
\* open of a 1m candle, lets it advance this many steps into that candle, and
\* takes this many kline frames.
PersistMaxTicks == 5
PersistMaxEvents == 3

\* The connection specification lets the upstream socket open this many
\* times.
ConnMaxOpens == 1

\* The decoding specification takes this many upstream messages within this
\* many clock steps.
DecodeMaxEvents == 3
DecodeMaxTicks == 2

\* The last candle of a symbol that stopped trading lies this many candles
\* back.
StaleCandles == 4
\* The store specification starts its clock at the open of this 1m candle,
\* lets it advance by this many candles, and takes this many inputs (history
\* calls and stream upserts together).
StoreStartCandle == 6
StoreMaxTicks == 1
StoreMaxOps == 2
\* Number of inputs (subscribe calls and broker messages together) explored by
\* the volatile-delivery specification.
VolMaxOps == 3
\* Number of inputs (subscribe/unsubscribe calls and broker messages together)
\* explored by the handler specification.
MaxOps == 3
ReplicaMaxOps == 2
QueueMaxLive == 2
MultiMaxEvents == 2
FindMaxRows == 3
FindMaxLimit == 2
RateTickMs == 1000
RateMaxTicks == 5
RateMaxEvents == 3
TimerMaxEvents == 5
TimerMaxTicks == 1
MultiMaxTicks == 2
MultiMaxOps == 1
QueueTickMs == 2000

(* ------------------------- program constants -------------------------- *)

PRICE_THROTTLE_MS == 200
KLINE_THROTTLE_MS == 500
PERSIST_THROTTLE_MS == 1000
KLINE_PERSIST_THROTTLE_MS == 5000

\* getHistoricalKlines: `limit = 500` when the query gives none.
DEFAULT_LIMIT == 500
\* getHistoricalKlines: Math.min(limit, 1000); the interval duration used
\* when INTERVAL_DURATION_MS has no entry; the freshness factor.
MAX_LIMIT == 1000
DEFAULT_INTERVAL_MS == 3600000
FRESH_INTERVALS == 3
\* BinanceStreamService.maxReconnectAttempts, baseReconnectDelay and the cap
\* on the delay in scheduleReconnect.
maxReconnectAttempts == 10
baseReconnectDelay == 1000
MAX_RECONNECT_DELAY == 30000
\* HttpStatus values thrown by fetchFromBinance and getHistoricalKlines.
TOO_MANY_REQUESTS == 429
BAD_GATEWAY == 502
INTERNAL_SERVER_ERROR == 500

\* Date.now() is an epoch clock: far past every throttle window, so that
\* `now - (map.get(k) || 0)` exceeds the window for a key never seen.
StartTime == 2 * KLINE_PERSIST_THROTTLE_MS

(* ------------------------------ strings ------------------------------- *)

BTC == <<"B", "T", "C">>
btc == <<"b", "t", "c">>
Btc == <<"B", "t", "c">>
ETH == <<"E", "T", "H">>
EmptyString == <<>>

\* String.prototype.toUpperCase on one character.
UpperChar(ch) ==
  CASE ch = "b" -> "B"
    [] ch = "t" -> "T"
    [] ch = "c" -> "C"
    [] ch = "e" -> "E"
    [] ch = "h" -> "H"
    [] ch = "n" -> "N"
    [] ch = "u" -> "U"
    [] ch = "l" -> "L"
    [] OTHER -> ch

ToUpperCase(s) == [i \in 1..Len(s) |-> UpperChar(s[i])]

(* -------------------------------- maps -------------------------------- *)

MapHas(m, k) == k \in DOMAIN m
MapSet(m, k, v) == [x \in (DOMAIN m) \cup {k} |-> IF x = k THEN v ELSE m[x]]
MapDelete(m, k) == [x \in (DOMAIN m) \ {k} |-> m[x]]
EmptyMap == [x \in {} |-> 0]
\* `map.get(k) || 0`
GetOrZero(m, k) == IF MapHas(m, k) THEN m[k] ELSE 0

(* ------------------------------- state -------------------------------- *)

VARIABLES
  now,                 \* Date.now()
  delivered,           \* number of upstream frames handed to handleMessage so far
  lastPriceBroadcast,  \* Map symbol -> time of the last priceUpdate
  lastKlineBroadcast,  \* Map klineKey -> time of the last klineUpdate
  pendingPrice,        \* Map symbol -> latest PriceData
  pendingKline,        \* Map klineKey -> latest kline payload
  throttleTimers,      \* Map timerKey -> due time of the armed setTimeout
  lastPersist,         \* Map symbol -> time of the last persistPrice enqueue
  lastKlinePersist,    \* Map klineKey -> time of the last kline upsert call
  persistJobs,         \* persistPrice jobs handed to the queue service
  klineUpserts,        \* persistKlineFromStream calls issued
  wire,                \* every frame emitted through the socket server, in order
  arrived,             \* per throttle key: the last frame published for it
  connected,           \* sockets currently connected to /prices
  gone,                \* sockets that have disconnected (ids are never reused)
  writable,            \* connected sockets whose transport is writable
  rooms,               \* adapter.rooms: Map room -> set of sockets
  latest,              \* per socket: Map room -> "subscribe" | "unsubscribe" (last acked)
  last,                \* the last gateway handler call and what it returned
  clientOps,           \* number of subscribe/unsubscribe calls so far
  channel,             \* messages published on prices:* and not yet handled
  brokerMsgs,          \* number of messages published so far
  klines,              \* the klines collection: its rows, in insertion order
  upsertOps,           \* updateOne operations sent to the collection, not yet written
  hcall,               \* the getHistoricalKlines call in progress, or the last one
  storeOps,            \* number of history calls and stream upserts so far
  warmed,              \* the last call upstream answered with rows: its query and time
  sockets,             \* upstream WebSocket objects created, in order: their readyState
  reconnectAttempts,   \* BinanceStreamService.reconnectAttempts
  reconnectTimers,     \* reconnect timers armed and not yet fired or cleared
  reconnectTimeout,    \* the handle kept in this.reconnectTimeout (0: none)
  scheduled,           \* log: every reconnect scheduled (with its delay) and every open
  destroyed,           \* onModuleDestroy has run
  seeder,              \* BinanceHistoryService.onModuleInit and its seedHistoricalData run
  replicas,            \* per replica: bootstrapped, Redis socket adapter attached, pmessages
                       \* waiting, upstream frames handled, its price throttle for BTC
  queue                \* the 'price' queue: its live jobs, the size of its fail-log

feedVars == <<now, delivered, lastPriceBroadcast, lastKlineBroadcast, pendingPrice,
              pendingKline, throttleTimers, lastPersist, lastKlinePersist,
              persistJobs, klineUpserts>>
clientVars == <<connected, gone, writable, rooms, latest, clientOps>>
gatewayVars == <<clientVars, last>>
brokerVars == <<channel, brokerMsgs>>
storeVars == <<klines, upsertOps, hcall, storeOps, warmed>>
connVars == <<sockets, reconnectAttempts, reconnectTimers, reconnectTimeout, scheduled,
              destroyed>>
restVars == <<storeVars, connVars, seeder, replicas, queue>>
vars == <<feedVars, gatewayVars, brokerVars, wire, arrived, restVars>>

\* Inputs taken so far: upstream frames, client calls and broker messages.
Inputs == delivered + clientOps + brokerMsgs

Clients == {"c1", "c2"}
Replicas == {"A", "B"}
FeedSymbols == {BTC}
Intervals == {"1m", "5m"}
NoCall == [op |-> "none"]

\* INTERVAL_DURATION_MS, for the intervals the model streams.
IntervalMs(i) == IF i = "1m" THEN 60000 ELSE 5 * 60000

(* --------------------------- upstream frames -------------------------- *)

\* The `data` object of a combined-stream frame.  c, p and k are optional.
MiniTicker(s, ts, px) ==
  [e |-> "24hrMiniTicker", E |-> ts, s |-> s, c |-> <<px>>, p |-> <<>>, k |-> <<>>]
Trade(s, ts, px) ==
  [e |-> "trade", E |-> ts, s |-> s, c |-> <<>>, p |-> <<px>>, k |-> <<>>]
Kline(s, ts, i, x, px) ==
  [e |-> "kline", E |-> ts, s |-> s, c |-> <<>>, p |-> <<>>,
   k |-> <<[t |-> ts - (ts % IntervalMs(i)), i |-> i, c |-> px, x |-> x]>>]
Unknown(s, ts) ==
  [e |-> "depthUpdate", E |-> ts, s |-> s, c |-> <<>>, p |-> <<>>, k |-> <<>>]

\* The frames the exchange can send at time ts; px identifies the frame
\* (prices are distinct, in arrival order).
Frames(ts, px) ==
  UNION {{MiniTicker(s, ts, px), Trade(s, ts, px), Unknown(s, ts)}
         \cup {Kline(s, ts, i, x, px) : i \in Intervals, x \in BOOLEAN}
         : s \in FeedSymbols}

\* A field that may be absent, read as JavaScript reads it: <<>> is undefined.
Field(opt) == IF opt # <<>> THEN opt[1] ELSE <<>>

\* An extractPriceData that takes a frame of unknown type for a price frame
\* (used to test C23).
extractPriceDataAny(payload) ==
  IF payload.e = "kline"
    THEN IF payload.k # <<>>
           THEN <<[symbol |-> payload.s, price |-> payload.k[1].c, ts |-> payload.E,
                   raw |-> payload]>>
           ELSE <<>>
    ELSE <<[symbol |-> payload.s, price |-> payload.E, ts |-> payload.E, raw |-> payload]>>

\* extractPriceData: <<>> is null, <<pd>> a PriceData.  The price of a
\* miniTicker or trade frame is its c or p field as it is; reading data.k.c
\* of a kline frame without k throws, which the catch turns into null.
extractPriceData(payload) ==
  IF payload.e = "24hrMiniTicker"
    THEN <<[symbol |-> payload.s, price |-> Field(payload.c), ts |-> payload.E,
            raw |-> payload]>>
  ELSE IF payload.e = "trade"
    THEN <<[symbol |-> payload.s, price |-> Field(payload.p), ts |-> payload.E,
            raw |-> payload]>>
  ELSE IF payload.e = "kline"
    THEN IF payload.k # <<>>
           THEN <<[symbol |-> payload.s, price |-> payload.k[1].c, ts |-> payload.E,
                   raw |-> payload]>>
           ELSE <<>>
  ELSE <<>>

(* ------------------------------ gateway ------------------------------- *)

RoomMembers(room) == IF MapHas(rooms, room) THEN rooms[room] ELSE {}

\* A broadcastPrice that addresses the room by the symbol as given, without
\* upper-casing it (used to test C9).
broadcastPriceRawRoom(symbol, data, src) ==
  [ev |-> "priceUpdate", room |-> symbol,
   data |-> [s |-> data.symbol, p |-> data.price, t |-> data.ts],
   at |-> now, to |-> RoomMembers(symbol) \cap writable, src |-> src]

\* server.to(room).volatile.emit(...): the frame goes to the members of the
\* room whose transport is writable now; for the others it is dropped.
\* `at`, `to` and `src` record when, to whom and by which caller it was sent.
broadcastPrice(symbol, data, src) ==
  [ev |-> "priceUpdate", room |-> ToUpperCase(symbol),
   data |-> [s |-> data.symbol, p |-> data.price, t |-> data.ts],
   at |-> now, to |-> RoomMembers(ToUpperCase(symbol)) \cap writable, src |-> src]

\* A broadcastKline without the volatile flag: the frame is addressed to
\* every member of the room, writable or not (used to test C11).
broadcastKlineBuffered(symbol, klineData, src) ==
  [ev |-> "klineUpdate", room |-> ToUpperCase(symbol),
   data |-> klineData,
   at |-> now, to |-> RoomMembers(ToUpperCase(symbol)), src |-> src]

broadcastKline(symbol, klineData, src) ==
  [ev |-> "klineUpdate", room |-> ToUpperCase(symbol),
   data |-> klineData,
   at |-> now, to |-> RoomMembers(ToUpperCase(symbol)) \cap writable, src |-> src]

(* --------------------------- message bodies --------------------------- *)

\* JavaScript values a client can send as the body of subscribe/unsubscribe.
Undefined == [t |-> "undefined"]
Null == [t |-> "null"]
Number == [t |-> "number"]
Str(chars) == [t |-> "string", str |-> chars]
Obj(symbol) == [t |-> "object", symbol |-> symbol]
\* A string body: its text, and what JSON.parse makes of the text (<<>> when
\* JSON.parse throws, else <<value>>).
Text(chars, json) == [t |-> "string", str |-> chars, json |-> json]

null == <<"n", "u", "l", "l">>
JsonText == <<"{", "}">>

SymbolStrings == {btc, Btc, ETH}

Payloads ==
  {Undefined, Null, Number, Obj(Undefined), Obj(Number), Obj(Str(EmptyString)),
   Text(EmptyString, <<>>),                  \* ''
   Text(null, <<Null>>),                     \* 'null'
   Text(JsonText, <<Number>>),               \* '123'
   Text(JsonText, <<Str(btc)>>),             \* '"btc"'
   Text(JsonText, <<Obj(Undefined)>>),       \* '{}'
   Text(JsonText, <<Obj(Str(EmptyString))>>) \* '{"symbol":""}'
  }
  \cup {Obj(Str(s)) : s \in SymbolStrings}                     \* {symbol: 'btc'}
  \cup {Text(JsonText, <<Obj(Str(btc))>>)}                     \* '{"symbol":"btc"}'
  \cup {Text(BTC, <<>>)}                                       \* 'BTC'

\* `parsed.symbol` / `payload.symbol`: <<>> when the access throws.
SymbolProperty(v) ==
  IF v.t = "object" THEN <<v.symbol>>
  ELSE IF v.t \in {"null", "undefined"} THEN <<>>
  ELSE <<Undefined>>

\* The first part of handleSubscribe / handleUnsubscribe: the value of the
\* local `symbol`, or <<>> when the handler returns "Invalid payload format".
PayloadSymbol(payload) ==
  IF payload.t = "string"
    THEN IF payload.json # <<>> /\ SymbolProperty(payload.json[1]) # <<>>
           THEN SymbolProperty(payload.json[1])
           ELSE <<Str(payload.str)>>
  ELSE IF payload.t = "object"
    THEN SymbolProperty(payload)
  ELSE <<>>

\* A symbol test that forgets `!symbol`: only the type is looked at (used to
\* test C10).
SymbolMissingLoose(symbol) == symbol.t # "string"

\* `!symbol || typeof symbol !== 'string'`
SymbolMissing(symbol) == symbol.t # "string" \/ symbol.str = EmptyString

InvalidPayload == [status |-> "error",
                   message |-> "Invalid payload format. Expected { symbol: string }"]
SymbolRequired == [status |-> "error", message |-> "Symbol is required"]

\* What handleSubscribe returns.
SubscribeReply(payload) ==
  IF PayloadSymbol(payload) = <<>> THEN InvalidPayload
  ELSE IF SymbolMissing(PayloadSymbol(payload)[1]) THEN SymbolRequired
  ELSE [status |-> "success", message |-> "Subscribed to",
        symbol |-> ToUpperCase(PayloadSymbol(payload)[1].str)]

\* What handleUnsubscribe returns.
UnsubscribeReply(payload) ==
  IF PayloadSymbol(payload) = <<>> THEN InvalidPayload
  ELSE IF SymbolMissing(PayloadSymbol(payload)[1]) THEN SymbolRequired
  ELSE [status |-> "success", message |-> "Unsubscribed from"]

\* Rooms named by the symbol as the client wrote it (used to test C7, C8).
SubscribeRoomRaw(symbol) == symbol
UnsubscribeRoomRaw(symbol) == symbol

\* The room handleSubscribe joins: `symbol.toUpperCase()`.
SubscribeRoom(symbol) == ToUpperCase(symbol)
\* The room handleUnsubscribe leaves: `symbol.toUpperCase()`.
UnsubscribeRoom(symbol) == ToUpperCase(symbol)

\* client.join(room)
Join(client, room) == MapSet(rooms, room, RoomMembers(room) \cup {client})
\* client.leave(room); the adapter deletes a room that becomes empty.
Leave(client, room) ==
  IF RoomMembers(room) \ {client} = {}
    THEN MapDelete(rooms, room)
    ELSE MapSet(rooms, room, RoomMembers(room) \ {client})
\* What the socket server does to the rooms when a socket closes.
LeaveAll(client) ==
  [r \in {x \in DOMAIN rooms : rooms[x] \ {client} # {}} |-> rooms[r] \ {client}]

\* The acknowledged operations of a socket, for the claims: for each symbol,
\* as the client wrote it, the operation last acknowledged with "success".
\* An older entry for the same symbol in another letter case is dropped.
SameSymbol(a, b) == ToUpperCase(a) = ToUpperCase(b)
Acked(client, symbol, op) ==
  [latest EXCEPT ![client] =
     [r \in {x \in DOMAIN latest[client] : ~SameSymbol(x, symbol)} \cup {symbol} |->
        IF r = symbol THEN op ELSE latest[client][r]]]
\* The operation last acknowledged to the client for symbol S, in any case.
LatestFor(client, S) ==
  IF \E r \in DOMAIN latest[client] : SameSymbol(r, S)
    THEN latest[client][CHOOSE r \in DOMAIN latest[client] : SameSymbol(r, S)]
    ELSE "none"

handleSubscribe(client, payload) ==
  /\ last' = [op |-> "subscribe", client |-> client, payload |-> payload,
              reply |-> SubscribeReply(payload)]
  /\ IF SubscribeReply(payload).status = "success"
       THEN /\ rooms' = Join(client, SubscribeRoom(PayloadSymbol(payload)[1].str))
            /\ latest' = Acked(client, PayloadSymbol(payload)[1].str, "subscribe")
       ELSE UNCHANGED <<rooms, latest>>

handleUnsubscribe(client, payload) ==
  /\ last' = [op |-> "unsubscribe", client |-> client, payload |-> payload,
              reply |-> UnsubscribeReply(payload)]
  /\ IF UnsubscribeReply(payload).status = "success"
       THEN /\ rooms' = Leave(client, UnsubscribeRoom(PayloadSymbol(payload)[1].str))
            /\ latest' = Acked(client, PayloadSymbol(payload)[1].str, "unsubscribe")
       ELSE UNCHANGED <<rooms, latest>>

(* ------------------------ BinanceStreamService ------------------------ *)

\* Template-string keys: `${symbol}:${interval}`, `price:${symbol}`,
\* `kline:${klineKey}`.
KlineKey(symbol, i) == <<symbol, i>>
PriceTimerKey(symbol) == <<"price", symbol>>
KlineTimerKey(klineKey) == <<"kline", klineKey[1], klineKey[2]>>

\* `now - lastPrice >= PRICE_THROTTLE_MS`
PriceWindowOpen(t, lastPrice) == t - lastPrice >= PRICE_THROTTLE_MS
\* `now - lastKline >= KLINE_THROTTLE_MS`
KlineWindowOpen(t, lastKline) == t - lastKline >= KLINE_THROTTLE_MS
\* A persistence window that is always open (used to test C37).
PersistWindowOpenAlways(t, lastPersistTime) == t >= lastPersistTime
\* `now - lastPersistTime >= PERSIST_THROTTLE_MS`
PersistWindowOpen(t, lastPersistTime) == t - lastPersistTime >= PERSIST_THROTTLE_MS
\* A persistence condition that throttles closed candles too (used to test C28).
KlinePersistDueThrottled(k, t, lastKlinePersistTime) ==
  t - lastKlinePersistTime >= KLINE_PERSIST_THROTTLE_MS

\* `klineData.k.x || now - lastKlinePersistTime >= KLINE_PERSIST_THROTTLE_MS`
KlinePersistDue(k, t, lastKlinePersistTime) ==
  k.x \/ t - lastKlinePersistTime >= KLINE_PERSIST_THROTTLE_MS

\* A scheduleThrottledBroadcast that arms no timer (used to test C2).
scheduleThrottledBroadcastDropped(klineKey, symbol, delay) == throttleTimers

\* scheduleThrottledBroadcast: the timer map after the call.  The armed timer
\* is recorded by the time at which it becomes due.
scheduleThrottledBroadcast(klineKey, symbol, delay) ==
  IF MapHas(throttleTimers, KlineTimerKey(klineKey))
    THEN throttleTimers
    ELSE MapSet(throttleTimers, KlineTimerKey(klineKey), now + delay)

\* A price branch that arms a timer without looking at the map (used to
\* test C36).
schedulePriceTimerAgain(symbol, delay) ==
  MapSet(throttleTimers, PriceTimerKey(symbol), now + delay)

\* The `else if (!this.throttleTimers.has(...))` branch of publishPrice.
schedulePriceTimer(symbol, delay) ==
  IF MapHas(throttleTimers, PriceTimerKey(symbol))
    THEN throttleTimers
    ELSE MapSet(throttleTimers, PriceTimerKey(symbol), now + delay)

\* persistKlineFromStream as called by publishPrice: the upsert it issues.
persistKlineFromStream(symbol, interval, k) ==
  [symbol |-> ToUpperCase(symbol), interval |-> interval, openTime |-> k.t,
   close |-> k.c, isClosed |-> k.x, at |-> now]

\* The kline branch of publishPrice (broadcast part).
PublishKlineBroadcast(priceData) ==
  LET symbol == priceData.symbol
      klineData == priceData.raw
      klineKey == KlineKey(symbol, klineData.k[1].i)
      lastKline == GetOrZero(lastKlineBroadcast, klineKey)
  IN /\ pendingKline' = MapSet(pendingKline, klineKey, klineData)
     /\ pendingPrice' = MapSet(pendingPrice, symbol, priceData)
     /\ IF KlineWindowOpen(now, lastKline)
          THEN /\ lastKlineBroadcast' = MapSet(lastKlineBroadcast, klineKey, now)
               /\ lastPriceBroadcast' = MapSet(lastPriceBroadcast, symbol, now)
               /\ wire' = wire \o <<broadcastKline(symbol, klineData, "feed"),
                                    broadcastPrice(symbol, priceData, "feed")>>
               /\ UNCHANGED throttleTimers
          ELSE /\ throttleTimers' =
                    scheduleThrottledBroadcast(klineKey, symbol,
                                               KLINE_THROTTLE_MS - (now - lastKline))
               /\ UNCHANGED <<lastKlineBroadcast, lastPriceBroadcast, wire>>

\* The kline branch of publishPrice (MongoDB persistence part).
PublishKlinePersist(priceData) ==
  LET symbol == priceData.symbol
      k == priceData.raw.k[1]
      klineKey == KlineKey(symbol, k.i)
      lastKlinePersistTime == GetOrZero(lastKlinePersist, klineKey)
  IN IF KlinePersistDue(k, now, lastKlinePersistTime)
       THEN /\ lastKlinePersist' = MapSet(lastKlinePersist, klineKey, now)
            /\ klineUpserts' = klineUpserts \cup {persistKlineFromStream(symbol, k.i, k)}
       ELSE UNCHANGED <<lastKlinePersist, klineUpserts>>

\* The non-kline branch of publishPrice.
PublishPriceBroadcast(priceData) ==
  LET symbol == priceData.symbol
      lastPrice == GetOrZero(lastPriceBroadcast, symbol)
  IN /\ pendingPrice' = MapSet(pendingPrice, symbol, priceData)
     /\ IF PriceWindowOpen(now, lastPrice)
          THEN /\ lastPriceBroadcast' = MapSet(lastPriceBroadcast, symbol, now)
               /\ wire' = wire \o <<broadcastPrice(symbol, priceData, "feed")>>
               /\ UNCHANGED throttleTimers
          ELSE /\ throttleTimers' =
                    schedulePriceTimer(symbol, PRICE_THROTTLE_MS - (now - lastPrice))
               /\ UNCHANGED <<lastPriceBroadcast, wire>>
     /\ UNCHANGED <<pendingKline, lastKlineBroadcast, lastKlinePersist, klineUpserts>>

\* The tail of publishPrice: the throttled persistPrice job.
PublishPersistJob(priceData) ==
  LET symbol == priceData.symbol
      lastPersistTime == GetOrZero(lastPersist, symbol)
  IN IF PersistWindowOpen(now, lastPersistTime)
       THEN /\ lastPersist' = MapSet(lastPersist, symbol, now)
            /\ persistJobs' = persistJobs \cup
                 {[symbol |-> symbol, price |-> priceData.price, at |-> now]}
       ELSE UNCHANGED <<lastPersist, persistJobs>>

publishPrice(priceData) ==
  /\ IF priceData.raw.e = "kline"
       THEN PublishKlineBroadcast(priceData) /\ PublishKlinePersist(priceData)
       ELSE PublishPriceBroadcast(priceData)
  /\ PublishPersistJob(priceData)

\* handleMessage on one decoded upstream frame.
handleMessage(payload) ==
  IF extractPriceData(payload) # <<>>
    THEN publishPrice(extractPriceData(payload)[1])
    ELSE UNCHANGED <<lastPriceBroadcast, lastKlineBroadcast, pendingPrice, pendingKline,
                     throttleTimers, lastPersist, lastKlinePersist, persistJobs,
                     klineUpserts, wire>>

\* The setTimeout callback armed by the non-kline branch of publishPrice.
\* A timer never runs before it is due; it may run later.
PriceTimerFires(symbol) ==
  /\ MapHas(throttleTimers, PriceTimerKey(symbol))
  /\ now >= throttleTimers[PriceTimerKey(symbol)]
  /\ throttleTimers' = MapDelete(throttleTimers, PriceTimerKey(symbol))
  /\ IF MapHas(pendingPrice, symbol)
       THEN /\ lastPriceBroadcast' = MapSet(lastPriceBroadcast, symbol, now)
            /\ wire' = wire \o <<broadcastPrice(symbol, pendingPrice[symbol], "timer")>>
       ELSE UNCHANGED <<lastPriceBroadcast, wire>>
  /\ UNCHANGED <<now, delivered, lastKlineBroadcast, pendingPrice, pendingKline,
                 lastPersist, lastKlinePersist, persistJobs, klineUpserts>>

\* The setTimeout callback armed by scheduleThrottledBroadcast.
KlineTimerFires(klineKey) ==
  LET timerKey == KlineTimerKey(klineKey)
      symbol == klineKey[1]
      hasKline == MapHas(pendingKline, klineKey)
      hasPrice == MapHas(pendingPrice, symbol)
  IN /\ MapHas(throttleTimers, timerKey)
     /\ now >= throttleTimers[timerKey]
     /\ throttleTimers' = MapDelete(throttleTimers, timerKey)
     /\ lastKlineBroadcast' =
          IF hasKline THEN MapSet(lastKlineBroadcast, klineKey, now) ELSE lastKlineBroadcast
     /\ lastPriceBroadcast' =
          IF hasPrice THEN MapSet(lastPriceBroadcast, symbol, now) ELSE lastPriceBroadcast
     /\ wire' = wire
          \o (IF hasKline
                THEN <<broadcastKline(symbol, pendingKline[klineKey], "timer")>> ELSE <<>>)
          \o (IF hasPrice
                THEN <<broadcastPrice(symbol, pendingPrice[symbol], "timer")>> ELSE <<>>)
     /\ UNCHANGED <<now, delivered, pendingPrice, pendingKline, lastPersist,
                    lastKlinePersist, persistJobs, klineUpserts>>

(* ------------------------------- clock -------------------------------- *)

\* Frames arrive up to the horizon; after it the clock makes one last step of
\* a whole kline window, so that every timer armed before it becomes due.
Horizon(ticks) == StartTime + ticks * TickMs

Tick(ticks) ==
  /\ now < Horizon(ticks) + KLINE_THROTTLE_MS
  /\ now' = IF now + TickMs <= Horizon(ticks)
              THEN now + TickMs
              ELSE Horizon(ticks) + KLINE_THROTTLE_MS
  /\ last' = NoCall
  /\ UNCHANGED <<delivered, lastPriceBroadcast, lastKlineBroadcast, pendingPrice,
                 pendingKline, throttleTimers, lastPersist, lastKlinePersist,
                 persistJobs, klineUpserts, wire, arrived, clientVars, brokerVars, restVars>>

(* ------------------------------ actions ------------------------------- *)

\* For the claims: the frame last published for the price key <<symbol>> and
\* for the kline key <<symbol, interval>>, by its price (which numbers the
\* frames in arrival order), with the time of the first frame for the key.
Arrival(payload) ==
  LET keys == IF payload.e \in {"24hrMiniTicker", "trade"} THEN {<<payload.s>>}
              ELSE IF payload.e = "kline"
                THEN {<<payload.s>>, <<payload.s, payload.k[1].i>>}
              ELSE {}
      px == IF payload.e = "24hrMiniTicker" THEN payload.c[1]
            ELSE IF payload.e = "trade" THEN payload.p[1]
            ELSE payload.k[1].c
  IN [key \in DOMAIN arrived \cup keys |->
        IF key \in keys
          THEN [px |-> px, at |-> now,
                first |-> IF key \in DOMAIN arrived THEN arrived[key].first ELSE now]
          ELSE arrived[key]]

\* ws.on('message'): the next upstream frame is decoded and published.
OnUpstreamMessage(limit, ticks, frames) ==
  /\ Inputs < limit
  /\ now <= Horizon(ticks)
  /\ \E payload \in frames : handleMessage(payload) /\ arrived' = Arrival(payload)
  /\ delivered' = delivered + 1
  /\ last' = NoCall
  /\ UNCHANGED <<now, clientVars, brokerVars, restVars>>

OnPriceTimer ==
  /\ \E symbol \in FeedSymbols : PriceTimerFires(symbol)
  /\ last' = NoCall
  /\ UNCHANGED <<arrived, clientVars, brokerVars, restVars>>

OnKlineTimer ==
  /\ \E symbol \in FeedSymbols, i \in Intervals : KlineTimerFires(KlineKey(symbol, i))
  /\ last' = NoCall
  /\ UNCHANGED <<arrived, clientVars, brokerVars, restVars>>

\* Everything but the clock.
Constructed ==
  /\ delivered = 0
  /\ lastPriceBroadcast = EmptyMap
  /\ lastKlineBroadcast = EmptyMap
  /\ pendingPrice = EmptyMap
  /\ pendingKline = EmptyMap
  /\ throttleTimers = EmptyMap
  /\ lastPersist = EmptyMap
  /\ lastKlinePersist = EmptyMap
  /\ persistJobs = {}
  /\ klineUpserts = {}
  /\ wire = <<>>
  /\ arrived = EmptyMap
  /\ connected = {}
  /\ gone = {}
  /\ writable = {}
  /\ rooms = EmptyMap
  /\ latest = [c \in Clients |-> EmptyMap]
  /\ last = NoCall
  /\ clientOps = 0
  /\ channel = {}
  /\ brokerMsgs = 0
  /\ klines = <<>>
  /\ upsertOps = {}
  /\ hcall = [phase |-> "idle"]
  /\ storeOps = 0
  /\ warmed = <<>>
  /\ sockets = <<>>
  /\ reconnectAttempts = 0
  /\ reconnectTimers = {}
  /\ reconnectTimeout = 0
  /\ scheduled = <<>>
  /\ destroyed = FALSE
  /\ seeder = [phase |-> "idle", initDone |-> FALSE]
  /\ replicas = [r \in Replicas |-> [up |-> FALSE, adapter |-> FALSE, inbox |-> {},
                                      feed |-> 0, lastPriceBroadcast |-> 0,
                                      pendingPrice |-> <<>>, priceTimer |-> <<>>]]
  /\ queue = [live |-> <<>>, failed |-> 0, pruned |-> FALSE]

Init == now = StartTime /\ Constructed

\* The feed: upstream frames, the clock and the throttle timers.
Next ==
  \/ OnUpstreamMessage(MaxEvents, MaxTicks, Frames(now, delivered + 1))
  \/ Tick(MaxTicks)
  \/ OnPriceTimer
  \/ OnKlineTimer

Spec == Init /\ [][Next]_vars

\* The feed with mini-tickers and open klines of every interval, enough of
\* them to arm every throttle timer.
TimerFrames(ts, px) ==
  UNION {{MiniTicker(s, ts, px)} \cup {Kline(s, ts, i, FALSE, px) : i \in Intervals}
         : s \in FeedSymbols}

TimerNext ==
  \/ OnUpstreamMessage(TimerMaxEvents, TimerMaxTicks, TimerFrames(now, delivered + 1))
  \/ Tick(TimerMaxTicks)
  \/ OnPriceTimer
  \/ OnKlineTimer

TimerSpec == Init /\ [][TimerNext]_vars

\* The feed with what Node's event loop guarantees: the clock advances and
\* an armed timer that is due runs its callback.  Price frames are mini-tickers
\* (a trade takes the same path through publishPrice).
FairFrames(ts, px) ==
  UNION {{MiniTicker(s, ts, px)} \cup {Kline(s, ts, i, FALSE, px) : i \in Intervals}
         : s \in FeedSymbols}

FairNext ==
  \/ OnUpstreamMessage(FairMaxEvents, FairMaxTicks, FairFrames(now, delivered + 1))
  \/ Tick(FairMaxTicks)
  \/ OnPriceTimer
  \/ OnKlineTimer

FairSpec ==
  /\ Init /\ [][FairNext]_vars
  /\ WF_vars(Tick(FairMaxTicks))
  /\ \A symbol \in FeedSymbols :
       WF_vars(PriceTimerFires(symbol) /\ last' = NoCall
               /\ UNCHANGED <<arrived, clientVars, brokerVars, restVars>>)
  /\ \A symbol \in FeedSymbols, i \in Intervals :
       WF_vars(KlineTimerFires(KlineKey(symbol, i)) /\ last' = NoCall
               /\ UNCHANGED <<arrived, clientVars, brokerVars, restVars>>)

(* -------------------------- client operations ------------------------- *)

\* handleConnection: a new socket on /prices.
Connect(client) ==
  /\ client \notin connected \cup gone
  /\ connected' = connected \cup {client}
  /\ writable' = writable \cup {client}
  /\ last' = [op |-> "connect", client |-> client]
  /\ UNCHANGED <<gone, rooms, latest, clientOps, feedVars, brokerVars, wire, arrived, restVars>>

\* handleDisconnect: the socket has closed and has left all its rooms.
Disconnect(client) ==
  /\ client \in connected
  /\ connected' = connected \ {client}
  /\ writable' = writable \ {client}
  /\ gone' = gone \cup {client}
  /\ rooms' = LeaveAll(client)
  /\ last' = [op |-> "disconnect", client |-> client]
  /\ UNCHANGED <<latest, clientOps, feedVars, brokerVars, wire, arrived, restVars>>

Subscribe(client, payloads, limit) ==
  /\ Inputs < limit
  /\ client \in connected
  /\ \E payload \in payloads : handleSubscribe(client, payload)
  /\ clientOps' = clientOps + 1
  /\ UNCHANGED <<connected, gone, writable, feedVars, brokerVars, wire, arrived, restVars>>

Unsubscribe(client, payloads, limit) ==
  /\ Inputs < limit
  /\ client \in connected
  /\ \E payload \in payloads : handleUnsubscribe(client, payload)
  /\ clientOps' = clientOps + 1
  /\ UNCHANGED <<connected, gone, writable, feedVars, brokerVars, wire, arrived, restVars>>

(* ------------------------------- broker ------------------------------- *)

\* What a replica running the broker variant of the feed publishes on
\* prices:<symbol> for one frame: JSON.stringify(priceData).
BrokerFrames(ts, px) ==
  {MiniTicker(btc, ts, px), MiniTicker(ETH, ts, px), Kline(BTC, ts, "1m", FALSE, px)}

RemotePublish(limit) ==
  /\ Inputs < limit
  /\ \E payload \in BrokerFrames(now, 100 + brokerMsgs) :
        channel' = channel \cup {extractPriceData(payload)[1]}
  /\ brokerMsgs' = brokerMsgs + 1
  /\ last' = NoCall
  /\ UNCHANGED <<feedVars, clientVars, wire, arrived, restVars>>

\* RedisSubscriberService.handleMessage on one pmessage.
handleBrokerMessage(priceData) ==
  wire' = wire \o <<broadcastPrice(priceData.symbol, priceData, "broker")>>
               \o (IF priceData.raw.e = "kline"
                     THEN <<broadcastKline(priceData.symbol, priceData.raw, "broker")>>
                     ELSE <<>>)

OnBrokerMessage ==
  /\ \E priceData \in channel :
        /\ handleBrokerMessage(priceData)
        /\ channel' = channel \ {priceData}
  /\ last' = NoCall
  /\ UNCHANGED <<feedVars, clientVars, brokerMsgs, arrived, restVars>>

\* The gateway's handlers on every kind of message body, with the broker
\* subscriber as the source of broadcasts.
HandlerNext ==
  \/ \E client \in Clients : Connect(client)
  \/ \E client \in Clients : Disconnect(client)
  \/ \E client \in Clients : Subscribe(client, Payloads, MaxOps)
  \/ \E client \in Clients : Unsubscribe(client, Payloads, MaxOps)
  \/ RemotePublish(MaxOps)
  \/ OnBrokerMessage

HandlerSpec == Init /\ [][HandlerNext]_vars

\* The gateway fed by the stream service: clients that subscribe and
\* unsubscribe while frames arrive and throttle timers are armed.
GwPayloads == {Obj(Str(btc)), Text(BTC, <<>>), Undefined}
GwFrames(ts, px) == {MiniTicker(BTC, ts, px), Kline(BTC, ts, "1m", FALSE, px)}

GatewayNext ==
  \/ \E client \in Clients : Connect(client)
  \/ \E client \in Clients : Disconnect(client)
  \/ \E client \in Clients : Subscribe(client, GwPayloads, GwMaxOps)
  \/ \E client \in Clients : Unsubscribe(client, GwPayloads, GwMaxOps)
  \/ OnUpstreamMessage(GwMaxOps, GwMaxTicks, GwFrames(now, delivered + 1))
  \/ Tick(GwMaxTicks)
  \/ OnPriceTimer
  \/ OnKlineTimer

GatewaySpec == Init /\ [][GatewayNext]_vars

(* --------------------------- KlineRepository -------------------------- *)

\* A row of the klines collection and the document of an upsert have the
\* fields symbol, interval, openTime, close and isClosed (close stands for
\* the candle's values: open, high, low, close, volumes).

\* The filter of updateOne: { symbol, interval, openTime } of the document.
SameCandle(row, doc) ==
  /\ row.symbol = doc.symbol
  /\ row.interval = doc.interval
  /\ row.openTime = doc.openTime

Matching(doc) == {n \in DOMAIN klines : SameCandle(klines[n], doc)}

\* A collection without the unique index admits every insert (used to test
\* C12).
NoUniqueIndex(rows, doc) == TRUE

\* KlineSchema.index({ symbol: 1, interval: 1, openTime: 1 }, { unique: true }):
\* an insert is admitted when no row has the document's key.
UniqueIndexAdmits(rows, doc) == \A n \in DOMAIN rows : ~SameCandle(rows[n], doc)

\* `{ $set: data }` on a row.
SetFields(row, doc) ==
  [f \in DOMAIN row |-> IF f \in DOMAIN doc THEN doc[f] ELSE row[f]]

\* updateOne(filter, { $set: data }, { upsert: true }) as sent to the server.
updateOne(doc) == [doc |-> doc, phase |-> "sent"]

\* upsertKline(data): one updateOne is sent.
upsertKline(data) == upsertOps \cup {updateOne(data)}

\* bulkUpsertKlines(klines): nothing for an empty list; else a bulkWrite of
\* one updateOne per document, unordered.
bulkUpsertKlines(docs) ==
  IF Len(docs) = 0 THEN upsertOps
  ELSE upsertOps \cup {updateOne(docs[n]) : n \in DOMAIN docs}

\* The server runs an updateOne: a row matching the filter (the first one)
\* is updated in place; when none matches the operation goes on to insert.
ServerMatches(op) ==
  /\ op \in upsertOps /\ op.phase = "sent"
  /\ IF Matching(op.doc) # {}
       THEN LET n == CHOOSE m \in Matching(op.doc) : \A k \in Matching(op.doc) : m <= k
            IN /\ klines' = [klines EXCEPT ![n] = SetFields(klines[n], op.doc)]
               /\ upsertOps' = upsertOps \ {op}
       ELSE /\ upsertOps' = (upsertOps \ {op}) \cup {[op EXCEPT !.phase = "inserting"]}
            /\ UNCHANGED klines

\* The insert of an upsert that matched nothing.  When another insert of the
\* same key got in first, the unique index refuses this one: the server then
\* retries the operation as an update, or (older servers) reports a
\* duplicate-key error and the operation is lost.
ServerInserts(op, retried) ==
  /\ op \in upsertOps /\ op.phase = "inserting"
  /\ upsertOps' = upsertOps \ {op}
  /\ IF UniqueIndexAdmits(klines, op.doc)
       THEN klines' = Append(klines, op.doc)
       ELSE IF retried
         THEN LET n == CHOOSE m \in Matching(op.doc) : \A k \in Matching(op.doc) : m <= k
              IN klines' = [klines EXCEPT ![n] = SetFields(klines[n], op.doc)]
         ELSE UNCHANGED klines

\* `startTime || endTime`, `if (startTime)`: an absent or zero time is falsy.
Truthy(opt) == opt # <<>> /\ opt[1] # 0

\* The rows a find(filter) selects, as indices into the collection.
FindFilter(symbol, interval, startTime, endTime) ==
  {n \in DOMAIN klines :
     /\ klines[n].symbol = ToUpperCase(symbol)
     /\ klines[n].interval = interval
     /\ Truthy(startTime) => klines[n].openTime >= startTime[1]
     /\ Truthy(endTime) => klines[n].openTime <= endTime[1]}

\* .sort({ openTime: 1 }): the selected rows by ascending openTime (rows of
\* equal openTime in insertion order).
RECURSIVE SortAscending(_)
SortAscending(S) ==
  IF S = {} THEN <<>>
  ELSE LET n == CHOOSE m \in S : \A k \in S :
                  \/ klines[m].openTime < klines[k].openTime
                  \/ (klines[m].openTime = klines[k].openTime /\ m <= k)
       IN <<klines[n]>> \o SortAscending(S \ {n})

\* findKlines: with a time range the first `limit` rows of the range,
\* oldest first; without one the `limit` most recent rows, oldest first.
findKlines(symbol, interval, startTime, endTime, limit) ==
  LET sorted == SortAscending(FindFilter(symbol, interval, startTime, endTime))
      hasTimeRange == Truthy(startTime) \/ Truthy(endTime)
  IN IF Len(sorted) <= limit THEN sorted
     ELSE IF hasTimeRange THEN SubSeq(sorted, 1, limit)
     ELSE SubSeq(sorted, Len(sorted) - limit + 1, Len(sorted))

\* The documents and the queries findKlines is tried on: 1m candles of two
\* symbols at the first minutes; times absent, 0, or on and between the rows.
FindDocs ==
  {[symbol |-> s, interval |-> "1m", openTime |-> n * IntervalMs("1m"), close |-> n,
    isClosed |-> TRUE] : s \in {BTC, ETH}, n \in 1..FindMaxRows}
FindTimes ==
  {<<>>, <<0>>} \cup {<<n * IntervalMs("1m")>> : n \in 1..FindMaxRows}

findOther == <<feedVars, clientVars, brokerVars, wire, arrived, upsertOps, hcall, storeOps,
               warmed, connVars, seeder, replicas, queue>>

\* A candle is written to the collection (the unique index admits it).
FindInsert ==
  /\ Len(klines) < FindMaxRows
  /\ \E doc \in FindDocs :
       /\ UniqueIndexAdmits(klines, doc)
       /\ klines' = Append(klines, doc)
  /\ last' = NoCall
  /\ UNCHANGED findOther

\* findKlines is called on the collection as it is.
FindCall ==
  /\ last = NoCall
  /\ \E symbol \in {BTC, btc}, startTime \in FindTimes, endTime \in FindTimes,
        limit \in 1..FindMaxLimit :
       last' = [op |-> "findKlines", symbol |-> symbol, interval |-> "1m",
                startTime |-> startTime, endTime |-> endTime, limit |-> limit,
                result |-> findKlines(symbol, "1m", startTime, endTime, limit)]
  /\ UNCHANGED <<klines, findOther>>

FindNext ==
  \/ FindInsert
  \/ FindCall

FindSpec == Init /\ [][FindNext]_vars

(* ------------------------- upstream connection ------------------------ *)

connOther == <<feedVars, gatewayVars, brokerVars, wire, arrived, storeVars, seeder, replicas, queue>>

\* A delay without the cap (used to test C20).
ReconnectDelayUncapped(attempts) == baseReconnectDelay * 2^attempts

\* `Math.min(baseReconnectDelay * Math.pow(2, reconnectAttempts), 30000)`
ReconnectDelay(attempts) ==
  IF baseReconnectDelay * 2^attempts <= MAX_RECONNECT_DELAY
    THEN baseReconnectDelay * 2^attempts
    ELSE MAX_RECONNECT_DELAY

\* A scheduleReconnect that gives up one attempt late (used to test C21).
scheduleReconnectLate(timers) ==
  IF reconnectAttempts > maxReconnectAttempts
    THEN /\ reconnectTimers' = timers
         /\ UNCHANGED <<reconnectAttempts, reconnectTimeout, scheduled>>
    ELSE /\ reconnectAttempts' = reconnectAttempts + 1
         /\ scheduled' = Append(scheduled, [kind |-> "reconnect",
                                            delay |-> ReconnectDelay(reconnectAttempts)])
         /\ reconnectTimers' = timers \cup {Len(scheduled) + 1}
         /\ reconnectTimeout' = Len(scheduled) + 1

\* A scheduleReconnect that counts the attempt and loses the timer (used to
\* test C34).
scheduleReconnectUnarmed(timers) ==
  IF reconnectAttempts >= maxReconnectAttempts
    THEN /\ reconnectTimers' = timers
         /\ UNCHANGED <<reconnectAttempts, reconnectTimeout, scheduled>>
    ELSE /\ reconnectAttempts' = reconnectAttempts + 1
         /\ scheduled' = Append(scheduled, [kind |-> "reconnect",
                                            delay |-> ReconnectDelay(reconnectAttempts)])
         /\ reconnectTimers' = timers
         /\ reconnectTimeout' = Len(scheduled) + 1

\* scheduleReconnect, `timers` being the timers armed when it is called.  A
\* timer is known by its handle (the position of its entry in the log).
scheduleReconnect(timers) ==
  IF reconnectAttempts >= maxReconnectAttempts
    THEN /\ reconnectTimers' = timers
         /\ UNCHANGED <<reconnectAttempts, reconnectTimeout, scheduled>>
    ELSE /\ reconnectAttempts' = reconnectAttempts + 1
         /\ scheduled' = Append(scheduled, [kind |-> "reconnect",
                                            delay |-> ReconnectDelay(reconnectAttempts)])
         /\ reconnectTimers' = timers \cup {Len(scheduled) + 1}
         /\ reconnectTimeout' = Len(scheduled) + 1

\* connect: `new WebSocket(wsUrl)` gives a socket in state CONNECTING, or the
\* try block throws and the catch schedules a reconnect.
connect(throws, timers) ==
  IF throws
    THEN scheduleReconnect(timers) /\ UNCHANGED sockets
    ELSE /\ sockets' = Append(sockets, "connecting")
         /\ reconnectTimers' = timers
         /\ UNCHANGED <<reconnectAttempts, reconnectTimeout, scheduled>>

\* isConnected: `this.ws && this.ws.readyState === WebSocket.OPEN`, this.ws
\* being the socket created last.
isConnected == sockets # <<>> /\ sockets[Len(sockets)] = "open"

\* onModuleInit
OnModuleInit ==
  /\ sockets = <<>> /\ scheduled = <<>> /\ ~destroyed
  /\ \E throws \in BOOLEAN : connect(throws, reconnectTimers)
  /\ UNCHANGED <<destroyed, connOther>>

Opens == {i \in DOMAIN scheduled : scheduled[i].kind = "open"}

\* An open handler that leaves the counter alone (used to test C33).
OnOpenKeepsCount ==
  /\ Cardinality(Opens) < ConnMaxOpens
  /\ \E n \in DOMAIN sockets :
       /\ sockets[n] = "connecting"
       /\ sockets' = [sockets EXCEPT ![n] = "open"]
  /\ scheduled' = Append(scheduled, [kind |-> "open"])
  /\ UNCHANGED <<reconnectAttempts, reconnectTimers, reconnectTimeout, destroyed, connOther>>

\* ws.on('open')
OnOpen ==
  /\ Cardinality(Opens) < ConnMaxOpens
  /\ \E n \in DOMAIN sockets :
       /\ sockets[n] = "connecting"
       /\ sockets' = [sockets EXCEPT ![n] = "open"]
  /\ reconnectAttempts' = 0
  /\ scheduled' = Append(scheduled, [kind |-> "open"])
  /\ UNCHANGED <<reconnectTimers, reconnectTimeout, destroyed, connOther>>

\* A close handler that a socket can run more than once (used to test C35).
OnCloseRepeated ==
  /\ \E n \in DOMAIN sockets : sockets' = [sockets EXCEPT ![n] = "closed"]
  /\ scheduleReconnect(reconnectTimers)
  /\ UNCHANGED <<destroyed, connOther>>

\* ws.on('close'): the connection failed, was lost, or was closed by
\* onModuleDestroy.
OnClose ==
  /\ \E n \in DOMAIN sockets :
       /\ sockets[n] # "closed"
       /\ sockets' = [sockets EXCEPT ![n] = "closed"]
  /\ scheduleReconnect(reconnectTimers)
  /\ UNCHANGED <<destroyed, connOther>>

\* The callback of the setTimeout armed by scheduleReconnect.
OnReconnectTimer ==
  /\ \E timer \in reconnectTimers, throws \in BOOLEAN :
       connect(throws, reconnectTimers \ {timer})
  /\ UNCHANGED <<destroyed, connOther>>

\* onModuleDestroy: clears the reconnect timer it holds, clears every
\* throttle timer and empties the timer map, and closes this.ws, the socket
\* created last.
OnModuleDestroy ==
  /\ ~destroyed
  /\ sockets # <<>> \/ scheduled # <<>>
  /\ destroyed' = TRUE
  /\ reconnectTimers' = reconnectTimers \ {reconnectTimeout}
  /\ throttleTimers' = EmptyMap
  /\ sockets' = [n \in DOMAIN sockets |->
                   IF n = Len(sockets) /\ sockets[n] \in {"connecting", "open"}
                     THEN "closing" ELSE sockets[n]]
  /\ UNCHANGED <<reconnectAttempts, reconnectTimeout, scheduled, now, delivered,
                 lastPriceBroadcast, lastKlineBroadcast, pendingPrice, pendingKline,
                 lastPersist, lastKlinePersist, persistJobs, klineUpserts, gatewayVars,
                 brokerVars, wire, arrived, storeVars, seeder, replicas, queue>>

ConnNext ==
  \/ OnModuleInit
  \/ OnOpen
  \/ OnClose
  \/ OnReconnectTimer
  \/ OnModuleDestroy

ConnSpec == Init /\ [][ConnNext]_vars

\* The event loop runs the callback of an armed timer.
ConnFairSpec == ConnSpec /\ WF_vars(OnReconnectTimer)

\* The timer handles a behaviour can use: ten reconnects in a row before and
\* after each open, and the log entries of the opens.
ConnMaxHandles == maxReconnectAttempts * (ConnMaxOpens + 1) + ConnMaxOpens

(* ---------------------------- frame decoding -------------------------- *)

\* A WebSocket message: text that is JSON or not, and the `data` member of
\* the parsed object, if any.
JsonMessage(payload) == [json |-> TRUE, data |-> <<payload>>]
NotJson == [json |-> FALSE, data |-> <<>>]
NoData == [json |-> TRUE, data |-> <<>>]
NoEventType(s, ts, px) ==
  JsonMessage([e |-> "", E |-> ts, s |-> s, c |-> <<px>>, p |-> <<>>, k |-> <<>>])
KlineWithoutK(s, ts) ==
  JsonMessage([e |-> "kline", E |-> ts, s |-> s, c |-> <<>>, p |-> <<>>, k |-> <<>>])

\* The messages the exchange can send at time ts.
DecodeMessages(ts, px) ==
  {JsonMessage(MiniTicker(BTC, ts, px)), JsonMessage(Kline(BTC, ts, "1m", FALSE, px)),
   JsonMessage(Kline(BTC, ts, "1m", TRUE, px)), JsonMessage(Unknown(BTC, ts)),
   NotJson, NoData, NoEventType(BTC, ts, px), KlineWithoutK(BTC, ts)}

\* handleMessage from the raw message on: JSON.parse (a throw is caught and
\* logged), `if (!payload || !payload.e) return`, then extractPriceData and
\* publishPrice.
onMessage(message) ==
  IF message.json /\ message.data # <<>> /\ message.data[1].e # ""
    THEN handleMessage(message.data[1])
    ELSE UNCHANGED <<lastPriceBroadcast, lastKlineBroadcast, pendingPrice, pendingKline,
                     throttleTimers, lastPersist, lastKlinePersist, persistJobs,
                     klineUpserts, wire>>

\* ws.on('message') on the open socket.
OnRawMessage ==
  /\ isConnected
  /\ delivered < DecodeMaxEvents
  /\ now <= StartTime + DecodeMaxTicks * TickMs
  /\ \E message \in DecodeMessages(now, delivered + 1) :
       /\ onMessage(message)
       /\ last' = [op |-> "message", message |-> message]
  /\ delivered' = delivered + 1
  /\ UNCHANGED <<now, arrived, clientVars, brokerVars, restVars>>

DecodeTick ==
  /\ now < StartTime + DecodeMaxTicks * TickMs + KLINE_THROTTLE_MS
  /\ now' = IF now + TickMs <= StartTime + DecodeMaxTicks * TickMs
              THEN now + TickMs
              ELSE StartTime + DecodeMaxTicks * TickMs + KLINE_THROTTLE_MS
  /\ last' = NoCall
  /\ UNCHANGED <<delivered, lastPriceBroadcast, lastKlineBroadcast, pendingPrice,
                 pendingKline, throttleTimers, lastPersist, lastKlinePersist,
                 persistJobs, klineUpserts, wire, arrived, clientVars, brokerVars, restVars>>

\* A rejected persistence call ends the process (used to test C24): the
\* socket and the timers are gone.
onPersistErrorUnhandled(call) ==
  /\ sockets' = [n \in DOMAIN sockets |-> "closed"]
  /\ throttleTimers' = EmptyMap
  /\ UNCHANGED <<lastPriceBroadcast, lastKlineBroadcast, pendingPrice, pendingKline,
                 lastPersist, lastKlinePersist, wire>>

\* The .catch handlers of publishPrice: the error is logged.
onPersistError(call) ==
  UNCHANGED <<sockets, throttleTimers, lastPriceBroadcast, lastKlineBroadcast,
              pendingPrice, pendingKline, lastPersist, lastKlinePersist, wire>>

\* The promise of addPersistPriceJob or of persistKlineFromStream rejects:
\* the job or the upsert is lost.
OnPersistRejected ==
  /\ \E call \in persistJobs \cup klineUpserts :
       /\ persistJobs' = persistJobs \ {call}
       /\ klineUpserts' = klineUpserts \ {call}
       /\ onPersistError(call)
       /\ last' = [op |-> "persistRejected", call |-> call]
  /\ UNCHANGED <<now, delivered, arrived, clientVars, brokerVars, storeVars, seeder, replicas, queue,
                 reconnectAttempts, reconnectTimers, reconnectTimeout, scheduled, destroyed>>

DecodeNext ==
  \/ OnModuleInit
  \/ OnOpen
  \/ OnRawMessage
  \/ DecodeTick
  \/ OnPriceTimer
  \/ OnKlineTimer

DecodeSpec == Init /\ [][DecodeNext]_vars

\* The feed until the service is shut down.
ShutdownNext ==
  \/ DecodeNext
  \/ OnModuleDestroy
  \/ OnClose

ShutdownSpec == Init /\ [][ShutdownNext]_vars

ResilienceNext ==
  \/ DecodeNext
  \/ OnPersistRejected

ResilienceSpec == Init /\ [][ResilienceNext]_vars

(* ------------- stream persistence across a candle boundary ------------ *)

\* The kline frames of BTC 1m the exchange can send at time ts.
PersistFrames(ts, px) == {Kline(BTC, ts, "1m", x, px) : x \in BOOLEAN}

\* ws.on('message') for a kline frame.
OnStreamKline ==
  /\ delivered < PersistMaxEvents
  /\ \E payload \in PersistFrames(now, delivered + 1) :
       handleMessage(payload) /\ arrived' = Arrival(payload)
  /\ delivered' = delivered + 1
  /\ last' = NoCall
  /\ UNCHANGED <<now, clientVars, brokerVars, restVars>>

\* Date.now() advances by one step.
PersistTick ==
  /\ now < IntervalMs("1m") + PersistMaxTicks * TickMs
  /\ now' = now + TickMs
  /\ last' = NoCall
  /\ UNCHANGED <<delivered, lastPriceBroadcast, lastKlineBroadcast, pendingPrice,
                 pendingKline, throttleTimers, lastPersist, lastKlinePersist,
                 persistJobs, klineUpserts, wire, arrived, clientVars, brokerVars, restVars>>

PersistInit == now = IntervalMs("1m") - TickMs /\ Constructed

PersistNext ==
  \/ OnStreamKline
  \/ PersistTick
  \/ OnKlineTimer

PersistSpec == PersistInit /\ [][PersistNext]_vars

\* The feed over several persistence windows: mini-tickers and 1m klines,
\* open and closed, on a coarse clock.
RateFrames(ts, px) ==
  {MiniTicker(BTC, ts, px)} \cup {Kline(BTC, ts, "1m", x, px) : x \in BOOLEAN}

OnRateMessage ==
  /\ delivered < RateMaxEvents
  /\ \E payload \in RateFrames(now, delivered + 1) :
       handleMessage(payload) /\ arrived' = Arrival(payload)
  /\ delivered' = delivered + 1
  /\ last' = NoCall
  /\ UNCHANGED <<now, clientVars, brokerVars, restVars>>

RateTick ==
  /\ now < StartTime + RateMaxTicks * RateTickMs
  /\ now' = now + RateTickMs
  /\ last' = NoCall
  /\ UNCHANGED <<delivered, lastPriceBroadcast, lastKlineBroadcast, pendingPrice,
                 pendingKline, throttleTimers, lastPersist, lastKlinePersist,
                 persistJobs, klineUpserts, wire, arrived, clientVars, brokerVars, restVars>>

RateNext ==
  \/ OnRateMessage
  \/ RateTick
  \/ OnPriceTimer
  \/ OnKlineTimer

RateSpec == Init /\ [][RateNext]_vars

(* ------------------------ BinanceHistoryService ----------------------- *)

Min(a, b) == IF a <= b THEN a ELSE b

\* The interval history is asked for.
HistoryIntervals == {"1m"}

\* `INTERVAL_DURATION_MS[interval] || 3_600_000`
IntervalDurationMs(interval) ==
  IF interval \in Intervals THEN IntervalMs(interval) ELSE DEFAULT_INTERVAL_MS

\* A HistoricalKline: a candle without symbol, interval and isClosed
\* (toHistoricalKline for a row, the map of fetchFromBinance for upstream data).
toHistoricalKline(doc) == [openTime |-> doc.openTime, close |-> doc.close]

\* The document upsertKline is given by persistKlineFromStream.
upsertDoc(call) ==
  [symbol |-> call.symbol, interval |-> call.interval, openTime |-> call.openTime,
   close |-> call.close, isClosed |-> call.isClosed]

\* storeKlines: every fetched candle is written as closed.
storeKlines(symbol, interval, data) ==
  bulkUpsertKlines([n \in DOMAIN data |->
                      [symbol |-> ToUpperCase(symbol), interval |-> interval,
                       openTime |-> data[n].openTime, close |-> data[n].close,
                       isClosed |-> TRUE]])

\* The query string fetchFromBinance builds.
fetchParams(symbol, interval, startTime, endTime, limit) ==
  [symbol |-> symbol, interval |-> interval, limit |-> Min(limit, MAX_LIMIT),
   startTime |-> IF Truthy(startTime) THEN startTime ELSE <<>>,
   endTime |-> IF Truthy(endTime) THEN endTime ELSE <<>>]

\* `response.ok`
ResponseOk(status) == status >= 200 /\ status <= 299

\* An error mapping that reports every failure as BadGateway (used to test
\* C19).
ErrorStatusFlat(status) == BAD_GATEWAY

\* `response.status === 429 ? TOO_MANY_REQUESTS : BAD_GATEWAY`
ErrorStatus(status) == IF status = 429 THEN TOO_MANY_REQUESTS ELSE BAD_GATEWAY

\* `const { ..., limit = 500 } = query; Math.min(limit, 1000)`
EffectiveLimit(query) ==
  Min(IF query.limit = <<>> THEN DEFAULT_LIMIT ELSE query.limit[1], MAX_LIMIT)

\* Step 1 of getHistoricalKlines: the rows read from the collection.
DbKlines(query) ==
  findKlines(ToUpperCase(query.symbol), query.interval, query.startTime, query.endTime,
             EffectiveLimit(query))

\* `gap <= intervalMs * 3`, gap = now - (latestKline?.openTime || 0)
FreshEnough(dbKlines, interval) ==
  now - (IF Len(dbKlines) > 0 THEN dbKlines[Len(dbKlines)].openTime ELSE 0)
    <= IntervalDurationMs(interval) * FRESH_INTERVALS

\* The rows are served from the collection.
DbServes(query) ==
  /\ Len(DbKlines(query)) >= EffectiveLimit(query)
  /\ FreshEnough(DbKlines(query), query.interval)

\* getHistoricalKlines up to its return from the collection or to the
\* request it sends upstream.
getHistoricalKlines(query) ==
  IF DbServes(query)
    THEN hcall' = [phase |-> "done", query |-> query,
                      result |-> [status |-> "ok", source |-> "db",
                                  rows |-> [n \in DOMAIN DbKlines(query) |->
                                              toHistoricalKline(DbKlines(query)[n])]]]
    ELSE hcall' = [phase |-> "fetching", query |-> query,
                      params |-> fetchParams(ToUpperCase(query.symbol), query.interval,
                                             query.startTime, query.endTime,
                                             EffectiveLimit(query))]

\* getHistoricalKlines from the upstream response on.  status 0 stands for a
\* fetch that rejects (no response).
fetchFromBinanceReturns(status, data) ==
  /\ hcall.phase = "fetching"
  /\ IF ResponseOk(status)
       THEN /\ hcall' = [phase |-> "done", query |-> hcall.query,
                         response |-> status,
                         result |-> [status |-> "ok", source |-> "upstream",
                                     rows |-> data]]
            /\ upsertOps' = storeKlines(hcall.params.symbol, hcall.params.interval, data)
            /\ warmed' = <<[query |-> hcall.query, at |-> now]>>
       ELSE /\ hcall' = [phase |-> "done", query |-> hcall.query,
                         response |-> status,
                         result |-> [status |-> "error",
                                     code |-> IF status = 0 THEN INTERNAL_SERVER_ERROR
                                              ELSE ErrorStatus(status)]]
            /\ UNCHANGED <<upsertOps, warmed>>

\* What the exchange can answer to a klines request: up to `limit` candles in
\* ascending order, inside the requested range, ending at the current candle
\* or, for a symbol that stopped trading, at an older one.
UpstreamCandle(interval, idx) ==
  [openTime |-> idx * IntervalMs(interval), close |-> 900 + idx]

UpstreamData(params) ==
  LET cur == now \div IntervalMs(params.interval)
      InRange(c) == /\ c.openTime >= 0
                    /\ params.startTime # <<>> => c.openTime >= params.startTime[1]
                    /\ params.endTime # <<>> => c.openTime <= params.endTime[1]
      answers == {[k \in 1..n |-> UpstreamCandle(params.interval, e - n + k)] :
                    n \in 0..params.limit,
                    e \in {cur, cur - StaleCandles}}
  IN {rows \in answers : \A k \in DOMAIN rows : InRange(rows[k])}

UpstreamStatuses == {0, 200, 429, 500}

(* ------------------------------ the store ----------------------------- *)

feedState == <<delivered, lastPriceBroadcast, lastKlineBroadcast, pendingPrice,
               pendingKline, throttleTimers, lastPersist, lastKlinePersist,
               persistJobs, klineUpserts>>
otherVars == <<feedState, gatewayVars, brokerVars, wire, arrived, connVars, seeder, replicas, queue>>

StoreRanges ==
  {<<<<>>, <<>>>>, <<<<IntervalMs("1m")>>, <<>>>>,
   <<<<IntervalMs("1m")>>, <<3 * IntervalMs("1m")>>>>,
   <<<<0>>, <<3 * IntervalMs("1m")>>>>}

QueryLimits == {1, 2}

StoreQueries ==
  {[symbol |-> btc, interval |-> i, startTime |-> r[1], endTime |-> r[2],
    limit |-> <<l>>] : i \in HistoryIntervals, r \in StoreRanges, l \in QueryLimits}

\* The call in progress: one that has returned is forgotten, one that waits
\* for the upstream response stays.
Pending == IF hcall.phase = "fetching" THEN hcall ELSE [phase |-> "idle"]

\* GET /history: a client calls getHistoricalKlines.
HistoryCall ==
  /\ storeOps < StoreMaxOps
  /\ hcall.phase # "fetching"
  /\ \E query \in StoreQueries : getHistoricalKlines(query)
  /\ storeOps' = storeOps + 1
  /\ UNCHANGED <<now, klines, upsertOps, warmed, otherVars>>

\* The upstream REST endpoint answers the pending request.
UpstreamResponds ==
  /\ hcall.phase = "fetching"
  /\ \E status \in UpstreamStatuses :
       IF ResponseOk(status)
         THEN \E data \in UpstreamData(hcall.params) : fetchFromBinanceReturns(status, data)
         ELSE fetchFromBinanceReturns(status, <<>>)
  /\ UNCHANGED <<now, klines, storeOps, otherVars>>

\* The stream service persists a kline frame of the current 1m candle.
StreamPersist ==
  /\ storeOps < StoreMaxOps
  /\ \E x \in BOOLEAN :
       upsertOps' = upsertKline(upsertDoc(persistKlineFromStream(BTC, "1m",
                      [t |-> now - (now % IntervalMs("1m")), i |-> "1m",
                       c |-> storeOps + 1, x |-> x])))
  /\ storeOps' = storeOps + 1
  /\ hcall' = Pending
  /\ UNCHANGED <<now, klines, warmed, otherVars>>

\* The database server works on the operations it was sent, in any order:
\* it looks for the row an upsert matches, and later inserts for an upsert
\* that matched none.
ServerFinds ==
  /\ \E op \in upsertOps : ServerMatches(op)
  /\ hcall' = Pending
  /\ UNCHANGED <<now, storeOps, warmed, otherVars>>

ServerWrites ==
  /\ \E op \in upsertOps, retried \in BOOLEAN : ServerInserts(op, retried)
  /\ hcall' = Pending
  /\ UNCHANGED <<now, storeOps, warmed, otherVars>>

warmOther == <<feedState, clientVars, brokerVars, wire, arrived, connVars, seeder, replicas, queue>>

\* A cache warming whose failure fails the call (used to test C40): the
\* error reaches the catch block of getHistoricalKlines.
storeKlinesCatchRethrows(call) ==
  IF call.phase = "done"
    THEN [call EXCEPT !.result = [status |-> "error", code |-> INTERNAL_SERVER_ERROR]]
    ELSE call

\* `.catch((err) => this.logger.error('Failed to cache klines to DB', err))`:
\* the error is logged, the call is left as it is.
storeKlinesCatch(call) == call

\* The server works on the operations while the call that sent them is
\* remembered.  An insert the unique index refuses without a retry fails the
\* bulkWrite, and with it the promise of storeKlines.
WarmFinds ==
  /\ \E op \in upsertOps : ServerMatches(op)
  /\ UNCHANGED <<now, hcall, storeOps, warmed, otherVars>>

WarmWrites ==
  /\ \E op \in upsertOps, retried \in BOOLEAN :
       /\ ServerInserts(op, retried)
       /\ LET refused == ~UniqueIndexAdmits(klines, op.doc) /\ ~retried
          IN /\ last' = [op |-> "insert", doc |-> op.doc, refused |-> refused]
             /\ hcall' = IF refused THEN storeKlinesCatch(hcall) ELSE hcall
  /\ UNCHANGED <<now, storeOps, warmed, warmOther>>

\* Date.now() advances by one 1m candle.
StoreTick ==
  /\ now < (StoreStartCandle + StoreMaxTicks) * IntervalMs("1m")
  /\ now' = now + IntervalMs("1m")
  /\ hcall' = Pending
  /\ warmed' = <<>>
  /\ UNCHANGED <<klines, upsertOps, storeOps, otherVars>>

StoreInit == now = StoreStartCandle * IntervalMs("1m") /\ Constructed

StoreNext ==
  \/ HistoryCall
  \/ UpstreamResponds
  \/ StreamPersist
  \/ ServerFinds
  \/ ServerWrites
  \/ StoreTick

StoreSpec == StoreInit /\ [][StoreNext]_vars

\* The history service and the stream writing to the collection, the
\* clock standing still.
WarmNext ==
  \/ HistoryCall
  \/ UpstreamResponds
  \/ StreamPersist
  \/ WarmFinds
  \/ WarmWrites

WarmSpec == StoreInit /\ [][WarmNext]_vars

(* ------------------------------ the seeder --------------------------- *)

\* SEED_CONFIG: the loops run over the symbols, and for each over the intervals.
SEED_SYMBOLS ==
  <<"BTCUSDT", "ETHUSDT", "BNBUSDT", "XRPUSDT", "SOLUSDT", "ADAUSDT", "DOGEUSDT">>
SEED_INTERVALS == <<"1m", "5m", "15m", "1h", "4h", "1d">>
SEED_LIMIT == 1000
SEED_DELAY_MS == 200
SEED_FAIL_DELAY_MS == 500

SeedCombos ==
  {<<SEED_SYMBOLS[i], SEED_INTERVALS[j]>> : i \in DOMAIN SEED_SYMBOLS, j \in DOMAIN SEED_INTERVALS}

\* What countKlines may answer: below and at the skip threshold.
SeedCounts == {0, 899, 900, SEED_LIMIT}

\* count >= SEED_CONFIG.seedLimit * 0.9
SeedSkips(count) == count * 10 >= SEED_LIMIT * 9

seederOther == <<feedVars, gatewayVars, brokerVars, wire, arrived, storeVars, connVars, replicas, queue>>

\* The body of the two loops starts for (symbol i, interval j): countKlines
\* is awaited.
SeedEnter(s, i, j) ==
  [s EXCEPT !.phase = "count", !.i = i, !.j = j,
            !.visits[<<SEED_SYMBOLS[i], SEED_INTERVALS[j]>>] = @ + 1]

\* The loops advance: next interval, else next symbol, else the function
\* returns.
SeedAdvance(s) ==
  IF s.j < Len(SEED_INTERVALS) THEN SeedEnter(s, s.i, s.j + 1)
  ELSE IF s.i < Len(SEED_SYMBOLS) THEN SeedEnter(s, s.i + 1, 1)
  ELSE [s EXCEPT !.phase = "done"]

\* A rejection leaves seedHistoricalData (used to test C25): no try around
\* the body, the rejection reaches the .catch of onModuleInit.
seedCatchAbort(s) == [s EXCEPT !.phase = "failed", !.failures = @ + 1]

\* catch (error): warn, then await delay(500).
seedCatch(s) ==
  [s EXCEPT !.phase = "delay", !.delay = SEED_FAIL_DELAY_MS, !.failures = @ + 1]

\* onModuleInit: seedHistoricalData() is started and not awaited.
HistoryOnModuleInit ==
  /\ seeder.phase = "idle"
  /\ seeder' = SeedEnter([phase |-> "idle", initDone |-> TRUE, i |-> 1, j |-> 1, delay |-> 0,
                          failures |-> 0, visits |-> [c \in SeedCombos |-> 0]], 1, 1)
  /\ UNCHANGED seederOther

\* await countKlines(symbol, interval)
SeedCountSettles ==
  /\ seeder.phase = "count"
  /\ \/ seeder' = seedCatch(seeder)
     \/ \E count \in SeedCounts :
          seeder' = IF SeedSkips(count) THEN SeedAdvance(seeder)
                    ELSE [seeder EXCEPT !.phase = "latest"]
  /\ UNCHANGED seederOther

\* await getLatestOpenTime(symbol, interval)
SeedLatestSettles ==
  /\ seeder.phase = "latest"
  /\ \/ seeder' = seedCatch(seeder)
     \/ seeder' = [seeder EXCEPT !.phase = "fetch"]
  /\ UNCHANGED seederOther

\* await fetchFromBinance(...): it throws, or answers with no row or some.
SeedFetchSettles ==
  /\ seeder.phase = "fetch"
  /\ \/ seeder' = seedCatch(seeder)
     \/ \E rows \in {0, 1} :
          seeder' = IF rows > 0 THEN [seeder EXCEPT !.phase = "store"]
                    ELSE [seeder EXCEPT !.phase = "delay", !.delay = SEED_DELAY_MS]
  /\ UNCHANGED seederOther

\* await storeKlines(symbol, interval, data)
SeedStoreSettles ==
  /\ seeder.phase = "store"
  /\ \/ seeder' = seedCatch(seeder)
     \/ seeder' = [seeder EXCEPT !.phase = "delay", !.delay = SEED_DELAY_MS]
  /\ UNCHANGED seederOther

\* await delay(200) or delay(500): the timer fires.
SeedDelayElapsed ==
  /\ seeder.phase = "delay"
  /\ seeder' = SeedAdvance(seeder)
  /\ UNCHANGED seederOther

SeedStep ==
  \/ SeedCountSettles
  \/ SeedLatestSettles
  \/ SeedFetchSettles
  \/ SeedStoreSettles
  \/ SeedDelayElapsed

SeedNext ==
  \/ HistoryOnModuleInit
  \/ SeedStep

\* Nest calls onModuleInit at startup; every awaited call settles and every
\* delay timer fires.
SeedFairSpec ==
  Init /\ [][SeedNext]_vars /\ WF_vars(HistoryOnModuleInit) /\ WF_vars(SeedStep)

(* -------------------------- volatile delivery ------------------------- *)

\* The transport of a connected socket stops or resumes being writable (its
\* send buffer fills up or drains).
SetWritable(client) ==
  /\ client \in connected
  /\ writable' = IF client \in writable THEN writable \ {client}
                                        ELSE writable \cup {client}
  /\ last' = NoCall
  /\ UNCHANGED <<connected, gone, rooms, latest, clientOps, feedVars, brokerVars,
                 wire, arrived, restVars>>

VolPayloads == {Obj(Str(btc))}

\* Broadcasts of the broker subscriber to rooms whose members come and go
\* and whose transports are writable or not.
VolatileNext ==
  \/ \E client \in Clients : Connect(client)
  \/ \E client \in Clients : Disconnect(client)
  \/ \E client \in Clients : Subscribe(client, VolPayloads, VolMaxOps)
  \/ \E client \in Clients : SetWritable(client)
  \/ RemotePublish(VolMaxOps)
  \/ OnBrokerMessage

VolatileSpec == Init /\ [][VolatileNext]_vars

(* --------------------------- the price queue -------------------------- *)

\* The options addPersistPriceJob gives every job.
ATTEMPTS == 3
BACKOFF_DELAY == 2000
REMOVE_ON_FAIL == 100

queueOther ==
  <<feedVars, clientVars, brokerVars, wire, arrived, storeVars, connVars, seeder, replicas>>

\* PriceJobData: ts is the frame's E, absent when the frame had none.
JobData == {[symbol |-> BTC, price |-> 100, ts |-> ts] : ts \in {<<>>, <<StartTime>>}}

\* backoff {type: 'exponential', delay}: the wait after the n-th failed attempt.
Backoff(attemptsMade) == BACKOFF_DELAY * 2 ^ (attemptsMade - 1)

\* handlePersistPrice: new Date(ts).toISOString() throws on a ts that is
\* not a time.
handlePersistPriceThrows(data) == data.ts = <<>>

\* A process that logs the error and returns (used to test C27).
processSwallows(job) == FALSE

\* PriceProcessor.process: TRUE when it throws (the error is rethrown).
process(job) == job.name = "persistPrice" /\ handlePersistPriceThrows(job.data)

\* PriceQueueService.addPersistPriceJob: the job is added, or the add
\* rejects and the error is logged.
AddPersistPriceJob ==
  /\ Len(queue.live) < QueueMaxLive
  /\ \E data \in JobData, added \in BOOLEAN :
       /\ queue' = IF added
                      THEN [queue EXCEPT !.live = Append(@,
                              [name |-> "persistPrice", data |-> data, attemptsMade |-> 0,
                               state |-> "waiting", wait |-> 0])]
                      ELSE queue
       /\ last' = [op |-> "add", data |-> data, added |-> added]
  /\ UNCHANGED queueOther

Active == {k \in DOMAIN queue.live : queue.live[k].state = "active"}
Waiting == {k \in DOMAIN queue.live : queue.live[k].state = "waiting"}
Delayed == {k \in DOMAIN queue.live : queue.live[k].state = "delayed"}

RemoveAt(seq, k) == SubSeq(seq, 1, k - 1) \o SubSeq(seq, k + 1, Len(seq))

\* The worker (concurrency 1) takes the oldest waiting job.
WorkerTakes ==
  /\ Active = {}
  /\ Waiting # {}
  /\ LET k == CHOOSE w \in Waiting : \A v \in Waiting : w <= v
     IN /\ queue' = [queue EXCEPT !.live[k].state = "active"]
        /\ last' = [op |-> "take", job |-> queue.live[k]]
  /\ UNCHANGED queueOther

\* process settles.  A completed job is removed (removeOnComplete: true); a
\* failed attempt below `attempts` is delayed by the backoff; the last
\* failed attempt moves the job to the fail-log, which keeps the newest
\* REMOVE_ON_FAIL jobs.
WorkerSettles ==
  /\ \E k \in Active :
       LET job == queue.live[k]
           made == job.attemptsMade + 1
       IN /\ queue' =
               IF ~process(job)
                 THEN [queue EXCEPT !.live = RemoveAt(@, k)]
               ELSE IF made < ATTEMPTS
                 THEN [queue EXCEPT !.live[k] = [job EXCEPT !.attemptsMade = made,
                                                            !.state = "delayed",
                                                            !.wait = Backoff(made)]]
               ELSE [queue EXCEPT !.live = RemoveAt(@, k),
                                  !.failed = Min(@ + 1, REMOVE_ON_FAIL),
                                  !.pruned = @ \/ queue.failed = REMOVE_ON_FAIL]
          /\ last' = [op |-> "processed", job |-> job, at |-> k]
  /\ UNCHANGED queueOther

\* Time passes: a delayed job whose wait is over is waiting again.
QueueTick ==
  /\ Delayed # {}
  /\ queue' = [queue EXCEPT !.live =
        [k \in DOMAIN @ |->
           IF @[k].state # "delayed" THEN @[k]
           ELSE IF @[k].wait > QueueTickMs THEN [@[k] EXCEPT !.wait = @ - QueueTickMs]
           ELSE [@[k] EXCEPT !.wait = 0, !.state = "waiting"]]]
  /\ last' = [op |-> "tick"]
  /\ UNCHANGED queueOther

QueueNext ==
  \/ AddPersistPriceJob
  \/ WorkerTakes
  \/ WorkerSettles
  \/ QueueTick

QueueSpec == Init /\ [][QueueNext]_vars

(* ------------------------------ replicas ------------------------------ *)

\* The replica a client's socket is connected to.
ReplicaOf(client) == IF client = "c1" THEN "A" ELSE "B"

\* server.to(room).volatile.emit on replica r: the frame reaches the room's
\* writable members connected to r, and those connected to another replica
\* when both servers have the Redis adapter attached.
ReplicaEmit(r, frame) ==
  [frame EXCEPT !.to = {c \in @ : \/ ReplicaOf(c) = r
                                  \/ replicas[r].adapter /\ replicas[ReplicaOf(c)].adapter},
                !.src = r]

\* JSON.stringify(priceData): the text, and what JSON.parse makes of it.
JsonStringify(priceData) == [t |-> "string", json |-> <<priceData>>]

\* bootstrap() and RedisSubscriberService.onModuleInit: connectToRedis
\* succeeds and createIOServer attaches the Redis adapter, or it throws and
\* the server keeps the in-memory adapter; prices:* is subscribed.
Bootstrap(r) ==
  /\ ~replicas[r].up
  /\ \E redisAdapter \in BOOLEAN :
        replicas' = [replicas EXCEPT ![r].up = TRUE, ![r].adapter = redisAdapter]
  /\ last' = NoCall
  /\ UNCHANGED <<feedVars, clientVars, brokerVars, wire, arrived, storeVars, connVars, seeder, queue>>

ReplicaConnect(client) ==
  /\ replicas[ReplicaOf(client)].up
  /\ Connect(client)

\* The frames a replica's feed decodes: a price frame and a kline frame.
ReplicaFrames(ts, px) == {MiniTicker(btc, ts, px), Kline(BTC, ts, "1m", FALSE, px)}

\* The broker variant of BinanceStreamService on replica r: a decoded frame
\* is published on prices:<symbol>; Redis hands it to every subscriber.
ReplicaPublish(r) ==
  /\ replicas[r].up
  /\ Inputs < ReplicaMaxOps
  /\ \E payload \in ReplicaFrames(now, 100 + brokerMsgs) :
       LET priceData == extractPriceData(payload)[1]
           pmessage == [channel |-> <<"prices:", priceData.symbol>>,
                        message |-> JsonStringify(priceData)]
       IN /\ replicas' = [b \in Replicas |->
                            IF replicas[b].up
                              THEN [replicas[b] EXCEPT !.inbox = @ \cup {pmessage}]
                              ELSE replicas[b]]
          /\ last' = [op |-> "publish", replica |-> r, pmessage |-> pmessage]
  /\ brokerMsgs' = brokerMsgs + 1
  /\ UNCHANGED <<feedVars, clientVars, channel, wire, arrived, storeVars, connVars, seeder, queue>>

\* A subscriber that broadcasts the price only (used to test C26).
subscriberHandleMessagePriceOnly(r, message) ==
  IF message.json = <<>> THEN <<>>
  ELSE LET priceData == message.json[1]
       IN <<ReplicaEmit(r, broadcastPrice(priceData.symbol, priceData, r))>>

\* RedisSubscriberService.handleMessage on replica r: the frames emitted.
subscriberHandleMessage(r, message) ==
  IF message.json = <<>> THEN <<>>
  ELSE LET priceData == message.json[1]
       IN <<ReplicaEmit(r, broadcastPrice(priceData.symbol, priceData, r))>>
          \o (IF priceData.raw.e = "kline"
                THEN <<ReplicaEmit(r, broadcastKline(priceData.symbol, priceData.raw, r))>>
                ELSE <<>>)

\* subClient.on('pmessage') on replica r.
OnPMessage(r) ==
  /\ \E pmessage \in replicas[r].inbox :
       /\ wire' = wire \o subscriberHandleMessage(r, pmessage.message)
       /\ replicas' = [replicas EXCEPT ![r].inbox = @ \ {pmessage}]
       /\ last' = [op |-> "pmessage", replica |-> r, pmessage |-> pmessage]
  /\ UNCHANGED <<feedVars, clientVars, brokerVars, arrived, storeVars, connVars, seeder, queue>>

\* The gateway-direct variant on replica r: publishPrice broadcasts a frame
\* of its own feed at once through the socket server.
ReplicaBroadcast(r) ==
  /\ replicas[r].up
  /\ Inputs < ReplicaMaxOps
  /\ \E payload \in ReplicaFrames(now, 100 + brokerMsgs) :
       LET priceData == extractPriceData(payload)[1]
       IN /\ wire' = wire
                    \o (IF payload.e = "kline"
                          THEN <<ReplicaEmit(r, broadcastKline(priceData.symbol, payload, r))>>
                          ELSE <<>>)
                    \o <<ReplicaEmit(r, broadcastPrice(priceData.symbol, priceData, r))>>
          /\ last' = [op |-> "broadcast", replica |-> r, priceData |-> priceData]
  /\ brokerMsgs' = brokerMsgs + 1
  /\ UNCHANGED <<feedVars, clientVars, channel, arrived, restVars>>

\* The n-th frame of the exchange's BTC mini-ticker stream: every replica's
\* own upstream connection receives the same frames.
UpstreamFrame(n) == MiniTicker(BTC, StartTime + n, n)

\* The gateway-direct BinanceStreamService of replica r handles the next
\* frame of its own upstream connection: the non-kline branch of
\* publishPrice with the replica's own throttle state.
ReplicaFeedPrice(r) ==
  /\ replicas[r].up
  /\ replicas[r].feed < MultiMaxEvents
  /\ LET priceData == extractPriceData(UpstreamFrame(replicas[r].feed + 1))[1]
         me == [replicas[r] EXCEPT !.feed = @ + 1, !.pendingPrice = <<priceData>>]
     IN IF PriceWindowOpen(now, replicas[r].lastPriceBroadcast)
          THEN /\ replicas' = [replicas EXCEPT ![r] = [me EXCEPT !.lastPriceBroadcast = now]]
               /\ wire' = wire \o <<ReplicaEmit(r, broadcastPrice(priceData.symbol,
                                                                 priceData, r))>>
          ELSE /\ replicas' = [replicas EXCEPT ![r] =
                     IF me.priceTimer = <<>>
                       THEN [me EXCEPT !.priceTimer =
                               <<now + PRICE_THROTTLE_MS - (now - me.lastPriceBroadcast)>>]
                       ELSE me]
               /\ UNCHANGED wire
  /\ last' = [op |-> "feed", replica |-> r]
  /\ UNCHANGED <<feedVars, clientVars, brokerVars, arrived, storeVars, connVars, seeder, queue>>

\* The price timer of replica r fires.
ReplicaPriceTimer(r) ==
  /\ replicas[r].priceTimer # <<>>
  /\ now >= replicas[r].priceTimer[1]
  /\ replicas' = [replicas EXCEPT ![r].priceTimer = <<>>, ![r].lastPriceBroadcast = now]
  /\ wire' = wire \o <<ReplicaEmit(r, broadcastPrice(BTC, replicas[r].pendingPrice[1], r))>>
  /\ last' = [op |-> "timer", replica |-> r]
  /\ UNCHANGED <<feedVars, clientVars, brokerVars, arrived, storeVars, connVars, seeder, queue>>

MultiTick ==
  /\ now < StartTime + MultiMaxTicks * TickMs
  /\ now' = now + TickMs
  /\ last' = NoCall
  /\ UNCHANGED <<delivered, lastPriceBroadcast, lastKlineBroadcast, pendingPrice,
                 pendingKline, throttleTimers, lastPersist, lastKlinePersist,
                 persistJobs, klineUpserts, wire, arrived, clientVars, brokerVars, restVars>>

\* Replicas that each run their own upstream feed.
MultiFeedNext ==
  \/ \E r \in Replicas : Bootstrap(r)
  \/ \E client \in Clients : ReplicaConnect(client)
  \/ \E client \in Clients : Subscribe(client, VolPayloads, MultiMaxOps)
  \/ \E r \in Replicas : ReplicaFeedPrice(r)
  \/ \E r \in Replicas : ReplicaPriceTimer(r)
  \/ MultiTick

MultiFeedSpec == Init /\ [][MultiFeedNext]_vars

ReplicaNext ==
  \/ \E r \in Replicas : Bootstrap(r)
  \/ \E client \in Clients : ReplicaConnect(client)
  \/ \E client \in Clients : Subscribe(client, VolPayloads, ReplicaMaxOps)
  \/ \E r \in Replicas : ReplicaPublish(r)
  \/ \E r \in Replicas : OnPMessage(r)
  \/ \E r \in Replicas : ReplicaBroadcast(r)

ReplicaSpec == Init /\ [][ReplicaNext]_vars

(* ------------------------------- claims ------------------------------- *)

\* The frames of one kind that the stream service (not the broker
\* subscriber) has broadcast, in order.
PriceUpdates(symbol) ==
  SelectSeq(wire, LAMBDA f : f.ev = "priceUpdate" /\ f.src # "broker" /\ f.data.s = symbol)
KlineUpdates(symbol, i) ==
  SelectSeq(wire, LAMBDA f : f.ev = "klineUpdate" /\ f.src # "broker"
                             /\ f.data.s = symbol /\ f.data.k[1].i = i)
\* Consecutive frames of a sequence are at least gap ms apart.
Spaced(frames, gap) ==
  \A n \in 1..(Len(frames) - 1) : frames[n + 1].at - frames[n].at >= gap

\* C1: any two consecutive priceUpdate broadcasts of the stream service for
\* one symbol are at least PRICE_THROTTLE_MS (200 ms) apart, whatever mix of
\* mini-ticker, trade and kline frames and timer firings produced them.
C1_PriceThrottleRate ==
  \A symbol \in FeedSymbols : Spaced(PriceUpdates(symbol), PRICE_THROTTLE_MS)

\* A frame for price px of the given kind and key is on the wire.
PriceBroadcast(symbol, px) ==
  \E n \in DOMAIN wire : /\ wire[n].ev = "priceUpdate"
                         /\ wire[n].data.s = symbol /\ wire[n].data.p = px
KlineBroadcast(symbol, i, px) ==
  \E n \in DOMAIN wire : /\ wire[n].ev = "klineUpdate" /\ wire[n].data.s = symbol
                         /\ wire[n].data.k[1].i = i /\ wire[n].data.k[1].c = px

IsLastArrived(key, px) == MapHas(arrived, key) /\ arrived[key].px = px

\* C2: no dropped tails.  When frame px is the last one that arrived for a
\* price key (symbol) or a kline key (symbol, interval), then eventually it
\* has been broadcast for that key, or a later frame for the key has arrived.
C2_NoDroppedTails ==
  /\ \A symbol \in FeedSymbols, px \in 1..FairMaxEvents :
       IsLastArrived(<<symbol>>, px)
         ~> (~IsLastArrived(<<symbol>>, px) \/ PriceBroadcast(symbol, px))
  /\ \A symbol \in FeedSymbols, i \in Intervals, px \in 1..FairMaxEvents :
       IsLastArrived(<<symbol, i>>, px)
         ~> (~IsLastArrived(<<symbol, i>>, px) \/ KlineBroadcast(symbol, i, px))

\* C2 witness: a frame that was throttled on arrival has been broadcast by a
\* timer as the last-arrived value of its key, with no timer left armed.
C2_Witness ==
  /\ throttleTimers = EmptyMap
  /\ \E symbol \in FeedSymbols, i \in Intervals :
       /\ MapHas(arrived, <<symbol, i>>) /\ MapHas(arrived, <<symbol>>)
       /\ arrived[<<symbol>>].px > arrived[<<symbol, i>>].px
       /\ \E n \in DOMAIN wire : /\ wire[n].src = "timer" /\ wire[n].ev = "klineUpdate"
                                 /\ wire[n].data.k[1].i = i
                                 /\ wire[n].data.k[1].c = arrived[<<symbol, i>>].px
       /\ \E n \in DOMAIN wire : /\ wire[n].src = "timer" /\ wire[n].ev = "priceUpdate"
                                 /\ wire[n].data.p = arrived[<<symbol>>].px

\* The frames a step appends to the wire.
NewFrames == {wire'[n] : n \in (Len(wire) + 1)..Len(wire')}

\* C3: coalescing preserves last.  A frame broadcast by a throttle timer
\* carries the frame that arrived last for its key at that moment; and while
\* all the frames received for a symbol lie inside one price throttle window,
\* at most 2 priceUpdate frames have been broadcast for it and, once no timer
\* is armed, the last of them carries the last frame of the burst.
C3_CoalescingPreservesLast ==
  /\ [][\A f \in NewFrames :
          f.src = "timer" =>
            IF f.ev = "priceUpdate"
              THEN IsLastArrived(<<f.data.s>>, f.data.p)
              ELSE IsLastArrived(<<f.data.s, f.data.k[1].i>>, f.data.k[1].c)]_vars
  /\ [](\A symbol \in FeedSymbols :
          (MapHas(arrived, <<symbol>>)
           /\ arrived[<<symbol>>].at - arrived[<<symbol>>].first < PRICE_THROTTLE_MS)
          => /\ Len(PriceUpdates(symbol)) <= 2
             /\ throttleTimers = EmptyMap =>
                  PriceUpdates(symbol)[Len(PriceUpdates(symbol))].data.p
                    = arrived[<<symbol>>].px)

\* C4: for every symbol the prices broadcast as priceUpdate, read in order,
\* are strictly increasing in arrival order: no frame is broadcast twice and
\* none after a later one.
C4_StrictlyIncreasing ==
  \A symbol \in FeedSymbols :
    \A n \in 1..(Len(PriceUpdates(symbol)) - 1) :
      PriceUpdates(symbol)[n].data.p < PriceUpdates(symbol)[n + 1].data.p

\* C5: any two consecutive klineUpdate broadcasts of the stream service for
\* one (symbol, interval) are at least KLINE_THROTTLE_MS (500 ms) apart, also
\* when a timer runs after its due time and a frame arrives in between.
C5_KlineThrottleRate ==
  \A symbol \in FeedSymbols, i \in Intervals :
    Spaced(KlineUpdates(symbol, i), KLINE_THROTTLE_MS)

\* C6: on every path (feed, timer, broker subscriber) the priceUpdate
\* derived from a kline frame is broadcast after the klineUpdate for that
\* frame: no priceUpdate of a frame precedes all of its klineUpdates.
C6_KlineBeforePrice ==
  \A n \in DOMAIN wire :
    wire[n].ev = "priceUpdate" =>
      \A m \in DOMAIN wire :
        (/\ wire[m].ev = "klineUpdate" /\ wire[m].src = wire[n].src
         /\ wire[m].data.s = wire[n].data.s /\ wire[m].data.k[1].c = wire[n].data.p)
        => \E k \in 1..(n - 1) :
             /\ wire[k].ev = "klineUpdate" /\ wire[k].data.s = wire[n].data.s
             /\ wire[k].data.k[1].c = wire[n].data.p

\* The names a room can have: the upper-cased symbols, and any room present.
RoomNames ==
  {ToUpperCase(s) : s \in SymbolStrings \cup {BTC, null}} \cup DOMAIN rooms

\* The connected clients whose last acknowledged call for S was a subscribe.
Subscribed(S) == {c \in connected : LatestFor(c, S) = "subscribe"}

\* C7: room membership.  The members of room S are exactly the connected
\* clients whose latest acknowledged subscribe/unsubscribe for S, compared
\* without regard to letter case, was a subscribe; a disconnected client is
\* in no room.
C7_RoomMembership ==
  /\ \A S \in RoomNames : RoomMembers(S) = Subscribed(S)
  /\ \A S \in DOMAIN rooms : rooms[S] \cap gone = {}

\* C7 witness: a client disconnected while subscribed (it never unsubscribed)
\* and another client is still a member of the same room.
C7_Witness ==
  \E c \in gone, d \in connected :
    /\ LatestFor(c, BTC) = "subscribe"
    /\ c \notin RoomMembers(BTC)
    /\ d \in RoomMembers(BTC)

\* C8: unsubscribe round trip.  A priceUpdate for S broadcast after a
\* client's unsubscribe(S) was acknowledged is not delivered to that client,
\* whoever broadcasts it (a frame's arrival or a throttle timer).
C8_UnsubscribeRoundTrip ==
  [][\A f \in NewFrames :
       f.ev = "priceUpdate" =>
         \A c \in Clients : (LatestFor(c, f.data.s) = "unsubscribe" => c \notin f.to)]_vars

\* C8 witness: a client received a priceUpdate, unsubscribed, and a throttle
\* timer then broadcast a coalesced priceUpdate that did not go to it.
C8_Witness ==
  \E c \in connected, n, m \in DOMAIN wire :
    /\ n < m
    /\ wire[n].ev = "priceUpdate" /\ c \in wire[n].to
    /\ wire[m].ev = "priceUpdate" /\ wire[m].src = "timer" /\ c \notin wire[m].to
    /\ wire[m].data.t < wire[m].at
    /\ LatestFor(c, wire[m].data.s) = "unsubscribe"

\* The non-empty string symbol a message body yields, as a set of at most
\* one string: the symbol property of an object; for a string body, the
\* symbol property of the object its text is JSON for, or the text itself
\* when the text is not JSON (or is JSON for null).  A string body that is
\* JSON for a number or a string yields nothing.
YieldedSymbol(payload) ==
  LET ofObject(v) == IF v.symbol.t = "string" /\ v.symbol.str # EmptyString
                       THEN {v.symbol.str} ELSE {}
  IN IF payload.t = "object" THEN ofObject(payload)
     ELSE IF payload.t = "string"
       THEN IF payload.json # <<>> /\ payload.json[1].t = "object"
              THEN ofObject(payload.json[1])
            ELSE IF payload.json # <<>> /\ payload.json[1].t # "null"
              THEN {}
            ELSE IF payload.str # EmptyString THEN {payload.str} ELSE {}
     ELSE {}

\* A step that is a subscribe / an unsubscribe call.
SubscribeCall == clientOps' = clientOps + 1 /\ last'.op = "subscribe"
HandlerCall == clientOps' = clientOps + 1

\* What C9 requires of one step.
SubscribeAcked ==
  /\ SubscribeCall =>
       \A s \in YieldedSymbol(last'.payload) :
         /\ last'.reply.status = "success"
         /\ last'.reply.symbol = ToUpperCase(s)
         /\ MapHas(rooms', ToUpperCase(s))
         /\ last'.client \in rooms'[ToUpperCase(s)]
  /\ \A f \in NewFrames :
       f.ev = "priceUpdate" =>
         /\ f.to = Subscribed(f.data.s) \cap writable
         /\ DOMAIN f.data = {"s", "p", "t"}
  /\ (channel' # channel /\ brokerMsgs' = brokerMsgs) =>
       Cardinality({n \in (Len(wire) + 1)..Len(wire') :
                      wire'[n].ev = "priceUpdate"}) = 1

VolatileStep ==
  /\ \A f \in NewFrames :
       /\ f.to \cap (RoomMembers(f.room) \ writable) = {}
       /\ RoomMembers(f.room) \cap writable \subseteq f.to
  /\ \A n \in DOMAIN wire : wire'[n] = wire[n]
  /\ channel # {} => ENABLED OnBrokerMessage

\* C11: volatile delivery.  A priceUpdate or klineUpdate broadcast while a
\* member of the room is not writable is not sent to that member, and is
\* never sent to it later (a frame once broadcast keeps its recipients);
\* every writable member is sent it; and a waiting broadcast can always be
\* made, whatever the state of the members' transports.
C11_VolatileDelivery == [][VolatileStep]_vars

\* C11 witness: a klineUpdate was broadcast while one of two members of the
\* room was not writable and went to the other only; the transport has since
\* recovered and the frame has still not been sent to that member.
C11_Witness ==
  \E c, d \in connected, n \in DOMAIN wire :
    /\ c # d
    /\ wire[n].ev = "klineUpdate" /\ wire[n].to = {c}
    /\ {c, d} \subseteq RoomMembers(wire[n].room)
    /\ {c, d} \subseteq writable

\* C12: the collection never holds two rows with the same symbol, interval
\* and openTime, whatever upserts race.
C12_UniqueCandle ==
  \A m, n \in DOMAIN klines : SameCandle(klines[m], klines[n]) => m = n

\* An upsert that matched no row is about to insert, and another upsert has
\* inserted the same candle meanwhile.
C12_Witness ==
  \E op \in upsertOps : op.phase = "inserting" /\ Matching(op.doc) # {}

\* C13: a stored row that is closed stays closed: no write to the
\* collection turns the isClosed flag of a row from true to false.
ClosedStaysClosed ==
  \A n \in DOMAIN klines :
    klines[n].isClosed => n \in DOMAIN klines' /\ klines'[n].isClosed

C13_ClosedStaysClosed == [][ClosedStaysClosed]_vars

\* C14: a kline frame with x=false whose candle no upsert was issued for
\* yet makes the service issue an upsert for that candle with isClosed=false
\* on that very frame.
UpsertsFor(upserts, k) ==
  {u \in upserts : u.symbol = BTC /\ u.interval = k.i /\ u.openTime = k.t}

FirstObservationPersisted ==
  LET key == KlineKey(BTC, "1m")
  IN (delivered' = delivered + 1 /\ MapHas(pendingKline', key)) =>
       LET k == pendingKline'[key].k[1]
       IN (k.c = delivered' /\ ~k.x /\ UpsertsFor(klineUpserts, k) = {}) =>
            \E u \in UpsertsFor(klineUpserts', k) : ~u.isClosed

C14_FirstObservationPersisted == [][FirstObservationPersisted]_vars

\* A step in which getHistoricalKlines is called: hcall' carries the query.
HistoryCalled ==
  /\ storeOps' = storeOps + 1
  /\ hcall.phase # "fetching"
  /\ hcall'.phase \in {"done", "fetching"}

HasRange(query) == Truthy(query.startTime) \/ Truthy(query.endTime)

\* C15: a call with a time range for which the collection holds at least
\* `limit` rows returns those rows without an upstream request, however old
\* they are.
RangedServedFromDb ==
  (/\ HistoryCalled
   /\ HasRange(hcall'.query)
   /\ Len(DbKlines(hcall'.query)) >= EffectiveLimit(hcall'.query))
  => /\ hcall'.phase = "done"
     /\ hcall'.result.source = "db"

C15_RangedServedFromDb == [][RangedServedFromDb]_vars

\* A step in which getHistoricalKlines returns rows.
HistoryReturnsRows ==
  /\ hcall' # hcall
  /\ hcall'.phase = "done"
  /\ hcall'.result.status = "ok"

\* C16: a non-empty series returned for a query without a time range ends
\* with a candle that opened at most three interval lengths ago, whether the
\* rows come from the collection or from upstream.
ServedFresh ==
  (/\ HistoryReturnsRows
   /\ ~HasRange(hcall'.query)
   /\ Len(hcall'.result.rows) > 0)
  => now' - hcall'.result.rows[Len(hcall'.result.rows)].openTime
       <= 3 * IntervalMs(hcall'.query.interval)

C16_ServedFresh == [][ServedFresh]_vars

\* The rows of the collection do not satisfy the query: there are fewer than
\* `limit`, or the query has no range and the latest row opened more than
\* three interval lengths ago.
FallsThrough(query) ==
  LET rows == DbKlines(query)
  IN \/ Len(rows) < EffectiveLimit(query)
     \/ /\ ~HasRange(query)
        /\ now - rows[Len(rows)].openTime > 3 * IntervalMs(query.interval)

\* C17: a call the collection does not satisfy sends an upstream request
\* with the parameters of the query, and when upstream answers with rows the
\* call returns those rows.
HistoryFallThrough ==
  /\ (HistoryCalled /\ FallsThrough(hcall'.query))
       => /\ hcall'.phase = "fetching"
          /\ hcall'.params.symbol = ToUpperCase(hcall'.query.symbol)
          /\ hcall'.params.interval = hcall'.query.interval
          /\ hcall'.params.startTime = hcall'.query.startTime
          /\ hcall'.params.endTime = hcall'.query.endTime
          /\ hcall'.params.limit = hcall'.query.limit[1]
  /\ (hcall.phase = "fetching" /\ hcall'.phase = "done" /\ ResponseOk(hcall'.response))
       => /\ hcall'.query = hcall.query
          /\ hcall'.result.status = "ok"
          /\ hcall'.result.source = "upstream"
          /\ hcall'.result.rows \in UpstreamData(hcall.params)

C17_HistoryFallThrough == [][HistoryFallThrough]_vars

\* C18: once a call has gone upstream, got rows and its writes are all in
\* the collection, the same call made again (at the same time) is served from
\* the collection, whatever number of rows upstream returned.
WarmedServedFromDb ==
  (/\ HistoryCalled
   /\ warmed # <<>>
   /\ warmed[1].query = hcall'.query
   /\ warmed[1].at = now
   /\ upsertOps = {})
  => /\ hcall'.phase = "done"
     /\ hcall'.result.source = "db"

C18_WarmedServedFromDb == [][WarmedServedFromDb]_vars

\* C19: when upstream answers with a status that is not 2xx, the call fails
\* with TooManyRequests for status 429 and with BadGateway for any other
\* status, returns no rows, and nothing is written to the collection.
UpstreamErrorMapped ==
  (/\ hcall.phase = "fetching"
   /\ hcall'.phase = "done"
   /\ hcall'.response # 0
   /\ ~(hcall'.response >= 200 /\ hcall'.response <= 299))
  => /\ hcall'.result.status = "error"
     /\ hcall'.result.code = (IF hcall'.response = 429 THEN 429 ELSE 502)
     /\ "rows" \notin DOMAIN hcall'.result
     /\ upsertOps' = upsertOps
     /\ klines' = klines

Rank(i) ==
  Cardinality({j \in 1..i : /\ scheduled[j].kind = "reconnect"
                            /\ \A m \in j..i : scheduled[m].kind # "open"})

\* C20: reconnectAttempts stays within 0..10, and the n-th reconnect
\* scheduled in a row without an open in between has n in 1..10 and the
\* delay min(1000 * 2^(n-1), 30000).
C20_ReconnectBackoff ==
  /\ reconnectAttempts \in 0..10
  /\ \A i \in DOMAIN scheduled :
       scheduled[i].kind = "reconnect" =>
         /\ Rank(i) \in 1..10
         /\ scheduled[i].delay =
              (IF 1000 * 2^(Rank(i) - 1) <= 30000 THEN 1000 * 2^(Rank(i) - 1) ELSE 30000)

\* Ten reconnects in a row have been scheduled after an open, the tenth with
\* the capped delay, the last connection attempt has failed too and the
\* service has given up.
C20_Witness ==
  /\ reconnectAttempts = 10
  /\ reconnectTimers = {}
  /\ ~destroyed
  /\ Opens # {}
  /\ sockets # <<>> /\ sockets[Len(sockets)] = "closed"
  /\ scheduled[Len(scheduled)] = [kind |-> "reconnect", delay |-> 30000]
  /\ Rank(Len(scheduled)) = 10

\* Ten reconnects in a row have been scheduled without an open in between.
TenFailed ==
  /\ scheduled # <<>>
  /\ scheduled[Len(scheduled)].kind = "reconnect"
  /\ Rank(Len(scheduled)) = 10

\* ... and the tenth attempt is over as well: nothing is armed or alive.
Abandoned ==
  /\ TenFailed
  /\ reconnectTimers = {}
  /\ \A n \in DOMAIN sockets : sockets[n] = "closed"

\* C21: after ten reconnect attempts in a row that did not reach open, the
\* close of the last attempt arms no timer and creates no socket, and from
\* then on no socket is ever created and isConnected is false.
AbandonedForGood ==
  /\ (TenFailed /\ \E n \in DOMAIN sockets : sockets[n] # "closed" /\ sockets'[n] = "closed")
       => /\ reconnectTimers' \subseteq reconnectTimers
          /\ scheduled' = scheduled
          /\ Len(sockets') = Len(sockets)
  /\ Abandoned => Abandoned' /\ sockets' = sockets /\ scheduled' = scheduled /\ ~isConnected'

C21_AbandonedForGood == [][AbandonedForGood]_vars

\* The connection has been abandoned after an earlier successful open, the
\* service was not shut down, and the last attempt ended with a close event.
C21_Witness ==
  /\ Abandoned
  /\ Opens # {}
  /\ ~destroyed
  /\ Len(sockets) > 10

\* C22: once onModuleDestroy has run, no reconnect timer is armed and no
\* upstream socket is created any more, not even after the close event of
\* the socket the shutdown closed.
ShutdownTerminal ==
  destroyed' => /\ reconnectTimers' = {}
                /\ destroyed => Len(sockets') = Len(sockets)

C22_ShutdownTerminal == [][ShutdownTerminal]_vars

\* The message is one the decoder drops: not JSON, without data, without
\* data.e, of an unknown type, or a kline without its k object.
Undecodable(message) ==
  \/ ~message.json
  \/ message.data = <<>>
  \/ message.data[1].e = ""
  \/ message.data[1].e \notin {"24hrMiniTicker", "trade", "kline"}
  \/ message.data[1].e = "kline" /\ message.data[1].k = <<>>

\* C23: the step that handles an undecodable message broadcasts nothing,
\* issues no persistence job and no upsert, changes no throttle state and
\* leaves the socket open, and the handler stays ready for the next message.
MoreMessagesDue == delivered < DecodeMaxEvents /\ now <= StartTime + DecodeMaxTicks * TickMs

DecodeFailureDropped ==
  /\ (last'.op = "message" /\ delivered' = delivered + 1 /\ Undecodable(last'.message))
      => /\ wire' = wire
         /\ persistJobs' = persistJobs
         /\ klineUpserts' = klineUpserts
         /\ UNCHANGED <<lastPriceBroadcast, lastKlineBroadcast, pendingPrice, pendingKline,
                        throttleTimers, lastPersist, lastKlinePersist>>
         /\ sockets' = sockets /\ isConnected'
  /\ (last.op = "message" /\ Undecodable(last.message) /\ MoreMessagesDue)
      => ENABLED OnRawMessage

C23_DecodeFailureDropped == [][DecodeFailureDropped]_vars

\* A kline frame without k has just been dropped while a throttle timer was
\* armed and frames had been broadcast before.
C23_Witness ==
  /\ last.op = "message"
  /\ last.message.data # <<>>
  /\ last.message.data[1].e = "kline"
  /\ last.message.data[1].k = <<>>
  /\ wire # <<>>
  /\ throttleTimers # EmptyMap

\* C24: a rejected persistPrice enqueue or kline upsert takes back no
\* broadcast, leaves every pending frame and every armed throttle timer in
\* place (so the event and later events are still broadcast), leaves the
\* socket open, and the next message is handled.
PersistenceFailureHarmless ==
  /\ last'.op = "persistRejected"
      => /\ wire' = wire
         /\ UNCHANGED <<throttleTimers, pendingPrice, pendingKline, lastPriceBroadcast,
                        lastKlineBroadcast>>
         /\ sockets' = sockets /\ isConnected'
  /\ (last.op = "persistRejected" /\ MoreMessagesDue) => ENABLED OnRawMessage

C24_PersistenceFailureHarmless == [][PersistenceFailureHarmless]_vars

\* The kline upsert of a frame has been rejected while the frame waits in
\* its throttle window with its timer armed.
C24_Witness ==
  /\ last.op = "persistRejected"
  /\ "openTime" \in DOMAIN last.call
  /\ MapHas(throttleTimers, KlineTimerKey(KlineKey(BTC, "1m")))
  /\ MapHas(pendingKline, KlineKey(BTC, "1m"))
  /\ pendingKline[KlineKey(BTC, "1m")].k[1].c = last.call.close

\* C25: onModuleInit has returned as soon as the seeder runs; no combination
\* of SEED_CONFIG is processed twice; the seeder reaches its end whichever
\* calls reject, and then every combination has been processed exactly once.
SeederStarted == seeder.phase # "idle"

SeederFinished ==
  /\ seeder.phase = "done"
  /\ \A c \in SeedCombos : seeder.visits[c] = 1

C25_SeederIsolatedAndTerminates ==
  /\ [](SeederStarted => seeder.initDone /\ \A c \in SeedCombos : seeder.visits[c] <= 1)
  /\ [](seeder.phase = "done" => SeederFinished)
  /\ <>SeederFinished

\* The seeder has finished although some combinations failed and others
\* did not.
C25_Witness ==
  /\ SeederStarted
  /\ SeederFinished
  /\ seeder.failures > 0
  /\ seeder.failures < Cardinality(SeedCombos)

\* C26: an event published by one replica on prices:<SYMBOL> is handed to the
\* subscriber of every running replica, whose gateway sends the priceUpdate
\* {s, p, t} to each writable client subscribed to the symbol on that
\* replica, and for a kline event a klineUpdate with the payload as well; an
\* event broadcast through the Redis socket adapter reaches the writable
\* subscribed clients of every replica that has the adapter attached.
LocalSubscribers(r, symbol) ==
  {c \in RoomMembers(ToUpperCase(symbol)) \cap writable : ReplicaOf(c) = r}

Emitted == SubSeq(wire', Len(wire) + 1, Len(wire'))

SentTo(ev, data, clients) ==
  \E n \in DOMAIN Emitted :
     /\ Emitted[n].ev = ev
     /\ Emitted[n].data = data
     /\ clients \subseteq Emitted[n].to

FannedOut(priceData, clients) ==
  /\ SentTo("priceUpdate",
            [s |-> priceData.symbol, p |-> priceData.price, t |-> priceData.ts], clients)
  /\ priceData.raw.e = "kline" => SentTo("klineUpdate", priceData.raw, clients)

CrossReplicaFanOut ==
  /\ last'.op = "publish"
       => \A b \in Replicas :
            replicas[b].up => last'.pmessage \in replicas'[b].inbox
  /\ last.op = "publish"
       => \A b \in Replicas :
            last.pmessage \in replicas[b].inbox => ENABLED OnPMessage(b)
  /\ last'.op = "pmessage"
       => FannedOut(last'.pmessage.message.json[1],
                    LocalSubscribers(last'.replica, last'.pmessage.message.json[1].symbol))
  /\ last'.op = "broadcast"
       => \A b \in Replicas :
            (replicas[last'.replica].adapter /\ replicas[b].adapter)
              => FannedOut(last'.priceData, LocalSubscribers(b, last'.priceData.symbol))

C26_CrossReplicaFanOut == [][CrossReplicaFanOut]_vars

\* A kline event published by replica A has been handled by replica B, whose
\* writable subscribed client was sent the priceUpdate and the klineUpdate.
C26_Witness ==
  /\ last.op = "pmessage"
  /\ last.replica = "B"
  /\ last.pmessage.message.json[1].raw.e = "kline"
  /\ Len(wire) >= 2
  /\ wire[Len(wire)].ev = "klineUpdate"
  /\ wire[Len(wire)].to = {"c2"}
  /\ wire[Len(wire) - 1].ev = "priceUpdate"
  /\ wire[Len(wire) - 1].to = {"c2"}

\* C27: a persistPrice job whose processing throws is attempted at most 3
\* times, delayed 2 s after the first failure and 4 s after the second, and
\* not taken again before the delay is over; a job that completes is removed;
\* the third failure moves the job to the fail-log, which never holds more
\* than 100 jobs.
Throws(job) == job.data.ts = <<>>

JobRetryBound ==
  /\ queue.failed <= 100
  /\ last'.op = "take" => last'.job.wait = 0 /\ last'.job.attemptsMade < 3
  /\ last'.op = "processed" =>
       LET job == last'.job
           k == last'.at
       IN /\ job.attemptsMade < 3
          /\ (Throws(job) /\ job.attemptsMade = 0) =>
                /\ Len(queue'.live) = Len(queue.live)
                /\ queue'.live[k] = [job EXCEPT !.attemptsMade = 1, !.state = "delayed",
                                                 !.wait = 2000]
                /\ queue'.failed = queue.failed
          /\ (Throws(job) /\ job.attemptsMade = 1) =>
                /\ Len(queue'.live) = Len(queue.live)
                /\ queue'.live[k] = [job EXCEPT !.attemptsMade = 2, !.state = "delayed",
                                                 !.wait = 4000]
                /\ queue'.failed = queue.failed
          /\ (Throws(job) /\ job.attemptsMade = 2) =>
                /\ Len(queue'.live) = Len(queue.live) - 1
                /\ queue'.failed = (IF queue.failed < 100 THEN queue.failed + 1 ELSE 100)
          /\ ~Throws(job) =>
                /\ Len(queue'.live) = Len(queue.live) - 1
                /\ queue'.failed = queue.failed

C27_JobRetryBound == [][JobRetryBound]_vars

\* A job has failed its third attempt while the fail-log was full: the log
\* still holds 100 jobs.
C27_Witness ==
  /\ last.op = "processed"
  /\ last.job.data.ts = <<>>
  /\ last.job.attemptsMade = 2
  /\ queue.pruned
  /\ queue.failed = 100

\* C28: a decoded kline frame with x=true makes the service issue, on that
\* very frame, an upsert of its candle with isClosed=true and the frame's
\* close, however recently the key was persisted.
ClosedCandlePersisted ==
  LET key == KlineKey(BTC, "1m")
  IN (delivered' = delivered + 1 /\ MapHas(pendingKline', key)) =>
       LET k == pendingKline'[key].k[1]
       IN (k.c = delivered' /\ k.x) =>
            \E u \in klineUpserts' \ klineUpserts :
               /\ u.symbol = BTC /\ u.interval = "1m" /\ u.openTime = k.t
               /\ u.close = k.c
               /\ u.at = now'
               /\ u.isClosed

C28_ClosedCandlePersisted == [][ClosedCandlePersisted]_vars

\* A closing frame was upserted less than 5 s after the previous upsert of
\* its key.
C28_Witness ==
  \E u \in klineUpserts, v \in klineUpserts :
     /\ u.symbol = v.symbol /\ u.interval = v.interval
     /\ v.isClosed
     /\ u.close < v.close
     /\ v.at - u.at < 5000

\* C29: once the stream's closing frame of a candle has been written, a
\* bulk upsert of storeKlines carrying a REST snapshot of that candle leaves
\* the row's close as the closing frame gave it.
FromRest(doc) == \E idx \in 0..(StoreStartCandle + StoreMaxTicks + 1) :
                    doc.close = UpstreamCandle(doc.interval, idx).close

ClosedByStream(row) == row.isClosed /\ ~FromRest(row)

ClosedValuesSurvive ==
  \A op \in upsertOps :
     (op \notin upsertOps' /\ FromRest(op.doc)) =>
        \A n \in DOMAIN klines :
           ClosedByStream(klines[n]) => klines'[n].close = klines[n].close

C29_ClosedValuesSurvive == [][ClosedValuesSurvive]_vars

\* C30: right after a broadcast made on the arrival of a frame (not by a
\* timer), no throttle timer of the broadcast's key is armed: price:<symbol>
\* for a priceUpdate, kline:<symbol>:<interval> for a klineUpdate.
ImmediateCancelsTimer ==
  \A f \in NewFrames :
     f.src # "timer" =>
       IF f.ev = "priceUpdate"
         THEN ~MapHas(throttleTimers', PriceTimerKey(f.data.s))
         ELSE ~MapHas(throttleTimers', KlineTimerKey(KlineKey(f.data.s, f.data.k[1].i)))

C30_ImmediateCancelsTimer == [][ImmediateCancelsTimer]_vars

\* C31: the shutdown broadcasts, for every throttle key whose timer is armed,
\* the pending value of the key before the timers are discarded; once the
\* service is shut down nothing more is broadcast.
ShutdownFlushes ==
  /\ (~destroyed /\ destroyed') =>
       /\ throttleTimers' = EmptyMap
       /\ \A key \in DOMAIN throttleTimers :
            IF key[1] = "price"
              THEN \E f \in NewFrames : /\ f.ev = "priceUpdate"
                                        /\ f.data.s = key[2]
                                        /\ f.data.p = pendingPrice[key[2]].price
              ELSE \E f \in NewFrames : /\ f.ev = "klineUpdate"
                                        /\ f.data = pendingKline[KlineKey(key[2], key[3])]
  /\ destroyed => wire' = wire

C31_ShutdownFlushes == [][ShutdownFlushes]_vars

\* C32: with replicas that each run their own upstream feed, a client is
\* sent at most one priceUpdate per upstream frame, and the priceUpdate
\* frames it is sent for a symbol are at least 200 ms apart.
SentToClient(client) ==
  SelectSeq(wire, LAMBDA f : f.ev = "priceUpdate" /\ client \in f.to)

NoDuplicateAcrossReplicas ==
  \A client \in Clients :
     LET frames == SentToClient(client)
     IN \A m \in DOMAIN frames, n \in DOMAIN frames :
          m < n => /\ frames[m].data.p # frames[n].data.p
                   /\ frames[n].at - frames[m].at >= 200

C32_NoDuplicateAcrossReplicas == NoDuplicateAcrossReplicas

\* scheduleReconnect was called in this step and returned without arming a
\* timer: a socket closed, or a reconnect timer fired and connect threw, and
\* nothing was scheduled.
GivesUp ==
  /\ scheduled' = scheduled
  /\ \/ \E n \in DOMAIN sockets : sockets[n] # "closed" /\ sockets'[n] = "closed"
     \/ /\ reconnectTimers' # reconnectTimers
        /\ sockets' = sockets
        /\ destroyed' = destroyed

\* C33: every open sets reconnectAttempts to 0, the first reconnect scheduled
\* after an open has the delay of 1 s, and the feed is only given up when the
\* last ten attempts were reconnects without an open among them.
OpenResets ==
  /\ Len(scheduled') > Len(scheduled) /\ scheduled'[Len(scheduled')].kind = "open"
       => reconnectAttempts' = 0
  /\ \A i \in DOMAIN scheduled' :
       (i > 1 /\ scheduled'[i].kind = "reconnect" /\ scheduled'[i - 1].kind = "open")
         => scheduled'[i].delay = 1000
  /\ GivesUp => /\ Len(scheduled) >= 10
                /\ \A i \in (Len(scheduled) - 9)..Len(scheduled) :
                     scheduled[i].kind = "reconnect"

C33_OpenResets == [][OpenResets]_vars

\* After failed attempts with growing delays the socket opened; it was lost
\* again, the first reconnect after the open waited 1 s, and more than ten
\* reconnects overall have been scheduled with a timer still armed.
C33_Witness ==
  /\ ~destroyed
  /\ reconnectTimers # {}
  /\ Len(scheduled) >= 12
  /\ \E i \in DOMAIN scheduled :
       /\ i > 2 /\ i < Len(scheduled)
       /\ scheduled[i].kind = "open"
       /\ scheduled[i - 1] = [kind |-> "reconnect", delay |-> 2000]
       /\ scheduled[i + 1] = [kind |-> "reconnect", delay |-> 1000]

\* A socket closes, or a connection attempt throws, in this step.
ClosedOrFailed ==
  \/ \E n \in DOMAIN sockets : sockets[n] # "closed" /\ sockets'[n] = "closed"
  \/ /\ sockets' = sockets
     /\ destroyed' = destroyed
     /\ \/ reconnectTimers' # reconnectTimers
        \/ sockets = <<>> /\ scheduled' # scheduled

\* C34: when the socket closes or a connection attempt fails with
\* reconnectAttempts below 10 and the service not shut down, a reconnect timer
\* is armed, and every timer armed while the service is not shut down fires
\* (its callback calls connect) unless the service is shut down first.
ReconnectArmed ==
  (ClosedOrFailed /\ reconnectAttempts < 10 /\ ~destroyed)
     => /\ Len(scheduled') = Len(scheduled) + 1
        /\ Len(scheduled') \in reconnectTimers'

C34_ReconnectLiveness ==
  /\ [][ReconnectArmed]_vars
  /\ \A timer \in 1..ConnMaxHandles :
       (timer \in reconnectTimers /\ ~destroyed) ~> (timer \notin reconnectTimers \/ destroyed)

\* The socket opened and was lost, the reconnect timer armed by the close has
\* fired and its callback has created a new socket.
C34_Witness ==
  /\ ~destroyed
  /\ Opens # {}
  /\ reconnectTimers = {}
  /\ Len(sockets) >= 2
  /\ sockets[Len(sockets)] = "connecting"
  /\ sockets[Len(sockets) - 1] = "closed"
  /\ scheduled[Len(scheduled)].kind = "reconnect"

\* The sockets that are connecting or open.
LiveSockets == {n \in DOMAIN sockets : sockets[n] \in {"connecting", "open"}}

\* C35: at most one upstream socket is connecting or open, at most one
\* reconnect timer is pending, and no reconnect timer is pending while a
\* socket is connecting or open.
C35_UpstreamSingleton ==
  /\ Cardinality(LiveSockets) <= 1
  /\ Cardinality(reconnectTimers) <= 1
  /\ ~(reconnectTimers # {} /\ LiveSockets # {})

\* After a shutdown the close event of the socket it closed has armed a
\* timer, the timer has fired and its callback has created the only live
\* socket.
C35_Witness ==
  /\ destroyed
  /\ Len(sockets) >= 2
  /\ LiveSockets = {Len(sockets)}
  /\ reconnectTimers = {}
  /\ scheduled[Len(scheduled)].kind = "reconnect"

\* The keys the timer map can hold: price:<symbol> and
\* kline:<symbol>:<interval>.
ThrottleKeys ==
  {PriceTimerKey(s) : s \in FeedSymbols}
    \cup {KlineTimerKey(KlineKey(s, i)) : s \in FeedSymbols, i \in Intervals}

\* C36: no timer is armed for a key that has one armed (an entry of the timer
\* map keeps its timer until that timer fires), a new entry is a timer that
\* is not due yet, an entry only leaves the map when its timer has become due
\* and runs, and the armed timers are at most |symbols| * (1 + |intervals|).
OneTimerPerKey ==
  /\ \A key \in DOMAIN throttleTimers :
       IF key \in DOMAIN throttleTimers'
         THEN throttleTimers'[key] = throttleTimers[key]
         ELSE now >= throttleTimers[key]
  /\ \A key \in DOMAIN throttleTimers' \ DOMAIN throttleTimers : throttleTimers'[key] > now'

TimersBounded ==
  /\ DOMAIN throttleTimers \subseteq ThrottleKeys
  /\ Cardinality(DOMAIN throttleTimers) <= Cardinality(FeedSymbols) * (1 + Cardinality(Intervals))

C36_OneTimerPerKey == [][OneTimerPerKey]_vars /\ []TimersBounded

\* The price timer and the kline timer of every interval are armed at once.
C36_Witness ==
  /\ DOMAIN throttleTimers = ThrottleKeys
  /\ \A key \in DOMAIN throttleTimers : throttleTimers[key] > now

C38_NoDroppedTail ==
  \A symbol \in FeedSymbols :
     (MapHas(arrived, <<symbol>>) /\ now - arrived[<<symbol>>].at >= 2000)
       => \E job \in persistJobs :
            job.symbol = symbol /\ job.price = arrived[<<symbol>>].px

\* The rows of the collection a call of findKlines is about: those of the
\* upper-cased symbol and the interval whose openTime lies in the range the
\* caller gave (an absent bound leaves that side open).
InRange(call) ==
  {n \in DOMAIN klines :
     /\ klines[n].symbol = ToUpperCase(call.symbol)
     /\ klines[n].interval = call.interval
     /\ call.startTime # <<>> => klines[n].openTime >= call.startTime[1]
     /\ call.endTime # <<>> => klines[n].openTime <= call.endTime[1]}

\* The rows of S with fewer than `limit` rows of S before them (oldest
\* first), or after them (newest first).
Oldest(S, limit) ==
  {klines[n] : n \in {m \in S :
     Cardinality({k \in S : klines[k].openTime < klines[m].openTime}) < limit}}
Newest(S, limit) ==
  {klines[n] : n \in {m \in S :
     Cardinality({k \in S : klines[k].openTime > klines[m].openTime}) < limit}}

Rows(result) == {result[n] : n \in DOMAIN result}

\* C39: findKlines returns at most `limit` rows, strictly ascending by
\* openTime; called without startTime and endTime the `limit` newest rows of
\* the symbol and interval, called with a range the `limit` oldest rows
\* inside it.
C39_FindKlinesOrdering ==
  last.op = "findKlines" =>
    /\ Len(last.result) <= last.limit
    /\ \A m \in DOMAIN last.result, n \in DOMAIN last.result :
         m < n => last.result[m].openTime < last.result[n].openTime
    /\ Rows(last.result) =
         IF last.startTime = <<>> /\ last.endTime = <<>>
           THEN Newest(InRange(last), last.limit)
           ELSE Oldest(InRange(last), last.limit)

\* The call has returned the rows of the upstream response.
ReturnedUpstream(call) ==
  /\ call.phase = "done"
  /\ call.result.status = "ok"
  /\ call.result.source = "upstream"

\* An insert leaves the server's work in this step without a row written.
UpsertRefused ==
  /\ klines' = klines
  /\ upsertOps' \subseteq upsertOps
  /\ \E op \in upsertOps \ upsertOps' : op.phase = "inserting"

\* C40: on the upstream path getHistoricalKlines returns the upstream rows in
\* the step that sends the bulk upsert, before the server has written any of
\* it, and an upsert that fails afterwards leaves the returned rows and the
\* outcome of the call as they were.
FireAndForget ==
  /\ (hcall.phase = "fetching" /\ hcall'.phase = "done" /\ ResponseOk(hcall'.response))
       => /\ ReturnedUpstream(hcall')
          /\ klines' = klines
          /\ \A n \in DOMAIN hcall'.result.rows :
               \E op \in upsertOps' :
                  /\ op.phase = "sent"
                  /\ op.doc.openTime = hcall'.result.rows[n].openTime
                  /\ op.doc.close = hcall'.result.rows[n].close
  /\ (ReturnedUpstream(hcall) /\ UpsertRefused) => hcall' = hcall

C40_FireAndForget == [][FireAndForget]_vars

\* The call has returned upstream rows and the upsert of one of them was
\* then refused by the server.
C40_Witness ==
  /\ ReturnedUpstream(hcall)
  /\ last.op = "insert"
  /\ last.refused
  /\ \E n \in DOMAIN hcall.result.rows :
       /\ last.doc.openTime = hcall.result.rows[n].openTime
       /\ last.doc.close = hcall.result.rows[n].close
  /\ \E m \in DOMAIN klines : SameCandle(klines[m], last.doc) /\ klines[m].close # last.doc.close

====
